---------------------------- MODULE Spec2Model ----------------------------
(***************************************************************************)
(* A model of simple-react-agent: the Thinker / Operator / Validator loop  *)
(* of src/simple_or_agent/react_agent.py and the scoped memory of          *)
(* src/simple_or_agent/memory.py.                                          *)
(*                                                                         *)
(* Text is a sequence of lexemes.  A lexeme is a TLA+ string standing for  *)
(* the characters it spells; the regular expressions of the source are     *)
(* modelled lexeme by lexeme (whitespace lexemes are " " and "\n").  In    *)
(* the memory model every lexeme is one character, so Len is len().        *)
(***************************************************************************)
EXTENDS Integers, Sequences, FiniteSets, TLC

VARIABLES
    tools,                    \* OperatorAgent._tools: name -> handler
    max_rounds,               \* constructor argument of ReActAgent
    max_steps,                \* ReActAgent.max_steps
    pc,                       \* position of ReActAgent.ask
    step_idx,                 \* loop variable of ask
    thought,                  \* thought of the current step
    action,                   \* ActionSpec of the current step
    transcript_lines,         \* model-facing transcript (list of lines)
    display_transcript_lines, \* user-facing transcript (list of lines)
    steps,                    \* list of ReActStep
    calls,                    \* history: sub-role calls and handler invocations of the run
    result,                   \* AskResult.content returned by ask, <<>> if none
    call,                     \* a direct call of a function under study: its arguments
    ret,                      \* ... and what it returned
    items,                    \* ConversationMemory._items
    policy,                   \* ConversationMemory.policy
    summarizer                \* ConversationMemory._summarizer

vars == <<tools, max_rounds, max_steps, pc, step_idx, thought, action,
          transcript_lines, display_transcript_lines, steps, calls, result,
          call, ret, items, policy, summarizer>>

agentVars == <<tools, max_rounds, max_steps>>
runVars == <<pc, step_idx, thought, action, transcript_lines,
             display_transcript_lines, steps, calls, result>>
memVars == <<items, policy, summarizer>>

None == "None"

-----------------------------------------------------------------------------
(* Bounds of the model *)

MaxRounds == 2

\* chunks per freeform action text given to OperatorAgent.execute
MaxChunks == 3

\* lexemes per Validator reply given to ValidatorAgent.judge
MaxJudgeLen == 5

\* items held by a ConversationMemory
MaxItems == 3

\* largest MemoryPolicy.keep_last
MaxKeep == 2

\* lexemes per text given to format_inline_citations
MaxCiteLen == 4

\* add_tool / remove_tool calls on one OperatorAgent
MaxOps == 3

\* largest LMStudioClient.max_retries
MaxRetries == 3

\* progress events of one executor run
MaxEvents == 2

\* largest max_tool_iters of the single-turn loop
MaxToolIters == 2

-----------------------------------------------------------------------------
(* Text helpers: str.strip, str.join, slices *)

Ws == {" ", "\n"}

IsWs(c) == c \in Ws

RECURSIVE LStrip(_)
LStrip(s) == IF s # <<>> /\ IsWs(Head(s)) THEN LStrip(Tail(s)) ELSE s

RECURSIVE RStrip(_)
RStrip(s) ==
    IF s # <<>> /\ IsWs(s[Len(s)]) THEN RStrip(SubSeq(s, 1, Len(s) - 1)) ELSE s

Strip(s) == RStrip(LStrip(s))

Drop(s, n) == SubSeq(s, n + 1, Len(s))

\* text[:n] for n >= 0
Take(s, n) == IF n >= Len(s) THEN s ELSE SubSeq(s, 1, n)

RECURSIVE Join(_, _)
Join(sep, lines) ==
    IF lines = <<>> THEN <<>>
    ELSE IF Len(lines) = 1 THEN lines[1]
    ELSE lines[1] \o sep \o Join(sep, Tail(lines))

JoinLines(lines) == Join(<<"\n">>, lines)

\* re.IGNORECASE on the literals of the patterns
Lower(c) ==
    CASE c \in {"Final", "FINAL", "final"} -> "final"
      [] c \in {"Answer:", "ANSWER:", "answer:"} -> "answer:"
      [] c \in {"Thought:", "thought:"} -> "thought:"
      [] c \in {"Action:", "action:"} -> "action:"
      [] c \in {"Decision:", "decision:"} -> "decision:"
      [] c \in {"continue", "Continue"} -> "continue"
      [] c \in {"search", "Search"} -> "search"
      [] c \in {"find", "Find"} -> "find"
      [] c \in {"look", "Look"} -> "look"
      [] c \in {"for", "For"} -> "for"
      [] c \in {"finish", "Finish", "FINISH"} -> "finish"
      [] OTHER -> c

\* ^\s*Final\s+Answer:\s*(.*)$ with re.IGNORECASE | re.DOTALL
MatchFinalAnswer(text) ==
    LET s1 == LStrip(text)
        s2 == IF s1 = <<>> THEN <<>> ELSE Tail(s1)
        s3 == LStrip(s2)
        ok == /\ s1 # <<>>
              /\ Lower(Head(s1)) = "final"
              /\ s2 # <<>>
              /\ IsWs(Head(s2))
              /\ s3 # <<>>
              /\ Lower(Head(s3)) = "answer:"
    IN  [matched |-> ok,
         group |-> IF ok THEN LStrip(Tail(s3)) ELSE <<>>]


-----------------------------------------------------------------------------
(* ThinkerAgent *)

\* ActionSpec; a missing say is the empty text and missing args the empty
\* tuple, as every use in the source reads them ("say or ''", "args or {}")
ActionSpec(t, n, a, s) == [type |-> t, name |-> n, args |-> a, say |-> s]

\* index of the first lexeme of text that is the label, 0 if none (re.search)
FindLabel(text, label) ==
    LET hits == {i \in 1..Len(text) : Lower(text[i]) = label}
    IN  IF hits = {} THEN 0 ELSE CHOOSE i \in hits : \A j \in hits : i <= j

\* (?:\n\s*Action:|$) tried at the front of s; $ also matches before a final newline
AtActionOrEnd(s) ==
    \/ s = <<>>
    \/ s = <<"\n">>
    \/ /\ Head(s) = "\n"
       /\ LET t == LStrip(Tail(s)) IN t # <<>> /\ Lower(Head(t)) = "action:"

\* Thought:\s*(.*?)(?:\n\s*Action:|$)  -> group(1).strip()
ParseThought(text) ==
    LET i == FindLabel(text, "thought:")
        rest == LStrip(Drop(text, i))
        p == CHOOSE k \in 0..Len(rest) :
                /\ AtActionOrEnd(Drop(rest, k))
                /\ \A j \in 0..(k - 1) : ~AtActionOrEnd(Drop(rest, j))
    IN  IF i = 0 THEN <<>> ELSE Strip(Take(rest, p))

\* Action:\s*(.*)$  -> group(1).strip()
ParseActionText(text) ==
    LET j == FindLabel(text, "action:")
    IN  IF j = 0 THEN <<>> ELSE Strip(Drop(text, j))

\* ThinkerAgent._parse_thought_and_action: <<thought, ActionSpec>>
ParseThoughtAndAction(text) ==
    LET mfa == MatchFinalAnswer(text)
    IN  IF mfa.matched
        THEN <<(<<>>), ActionSpec("finish", None, <<>>, Strip(mfa.group))>>
        ELSE <<ParseThought(text),
               ActionSpec("plan", None, <<>>, ParseActionText(text))>>

-----------------------------------------------------------------------------
(* OperatorAgent *)

\* tool names in sorted() order
ToolOrder == <<"calculator", "fetch_page", "web_search">>

ToolNames == {ToolOrder[i] : i \in DOMAIN ToolOrder}

Handlers == {"h1", "h2"}

\* ", ".join(sorted(self._tools.keys()))
RECURSIVE CommaJoin(_)
CommaJoin(names) ==
    IF names = <<>> THEN <<>>
    ELSE IF Len(names) = 1 THEN <<names[1]>>
    ELSE <<names[1], ",", " ">> \o CommaJoin(Tail(names))

\* the keys a registry can have, in sorted() order: the empty name comes first
RegistryOrder == <<"">> \o ToolOrder

SortedNames(reg) == CommaJoin(SelectSeq(RegistryOrder, LAMBDA n : n \in DOMAIN reg))

First(S) == IF S = {} THEN 0 ELSE CHOOSE i \in S : \A j \in S : i <= j

\* https?://\S+ : <<first, last>> index of the leftmost match in s, <<0, 0>> if none
UrlSpan(s) ==
    LET i == First({k \in 1..(Len(s) - 1) :
                       s[k] \in {"http://", "https://"} /\ ~IsWs(s[k + 1])})
        j == First({k \in (i + 1)..Len(s) : k = Len(s) \/ IsWs(s[k + 1])})
    IN  IF i = 0 THEN <<0, 0>> ELSE <<i, j>>

\* (?:search|look\s*up|find) at index i: the index after the verb, 0 if no match
VerbEnd(s, i) ==
    IF i < 1 \/ i > Len(s) THEN 0
    ELSE IF Lower(s[i]) \in {"search", "find"} THEN i + 1
    ELSE IF Lower(s[i]) = "look"
         THEN LET u == First({k \in (i + 1)..Len(s) : ~IsWs(s[k])})
              IN  IF u # 0 /\ s[u] \in {"up", "Up", "UP"} THEN u + 1 ELSE 0
    ELSE 0

\* \s+ at index k: the index after the whitespace run, 0 if there is none
WsEnd(s, k) ==
    IF k < 1 \/ k > Len(s) \/ ~IsWs(s[k]) THEN 0
    ELSE LET e == First({m \in k..Len(s) : ~IsWs(s[m])})
         IN  IF e = 0 THEN Len(s) + 1 ELSE e

\* (?:for\s+)? at index k: the index after "for" and its whitespace, 0 if absent
ForEnd(s, k) ==
    IF k >= 1 /\ k <= Len(s) /\ Lower(s[k]) = "for" THEN WsEnd(s, k + 1) ELSE 0

\* \"([^\"]+)\" at index q: the index of the closing quote, 0 if no match
QuoteClose(s, q) ==
    IF q < 1 \/ q > Len(s) \/ s[q] # "\"" THEN 0
    ELSE LET c == First({m \in (q + 1)..Len(s) : s[m] = "\""})
         IN  IF c > q + 1 THEN c ELSE 0

\* (?:search|look\s*up|find)\s+(?:for\s+)?\"([^\"]+)\" tried at index i:
\* <<first, last>> of group(1), <<0, 0>> if no match
QuotedAt(s, i) ==
    LET k == WsEnd(s, VerbEnd(s, i))
        f == ForEnd(s, k)
        q == IF f # 0 /\ QuoteClose(s, f) # 0 THEN f ELSE k
        c == QuoteClose(s, q)
    IN  IF k = 0 \/ c = 0 THEN <<0, 0>> ELSE <<q + 1, c - 1>>

QuotedSpan(s) ==
    LET i == First({k \in 1..Len(s) : QuotedAt(s, k) # <<0, 0>>})
    IN  IF i = 0 THEN <<0, 0>> ELSE QuotedAt(s, i)

\* (.+)$ from index k (no re.DOTALL: "." stops at a newline)
TailOk(s, k) ==
    /\ k >= 1
    /\ k <= Len(s)
    /\ \A m \in k..Len(s) : s[m] # "\n"

\* (?:search|look\s*up|find)\s+(?:for\s+)?(.+)$ tried at index i:
\* the first index of group(1), 0 if no match
TailAt(s, i) ==
    LET k == WsEnd(s, VerbEnd(s, i))
        f == ForEnd(s, k)
    IN  IF k = 0 THEN 0
        ELSE IF f # 0 /\ TailOk(s, f) THEN f
        ELSE IF TailOk(s, k) THEN k
        ELSE 0

TailStart(s) ==
    LET i == First({k \in 1..Len(s) : TailAt(s, k) # 0})
    IN  IF i = 0 THEN 0 ELSE TailAt(s, i)

Inferred(n, k, v) == [name |-> n, args |-> <<k, v>>]

NoTool == [name |-> None, args |-> <<>>]

\* _infer_tool_from_text as it would be with the quoted-search rule tried first
FirstRuleSearchFirst(reg, s, m, mq, mt) ==
    IF mq # <<0, 0>> /\ "web_search" \in DOMAIN reg
    THEN Inferred("web_search", "query", SubSeq(s, mq[1], mq[2]))
    ELSE IF m # <<0, 0>> /\ "fetch_page" \in DOMAIN reg
    THEN Inferred("fetch_page", "url", SubSeq(s, m[1], m[2]))
    ELSE IF mt # 0 /\ "web_search" \in DOMAIN reg
    THEN Inferred("web_search", "query", Strip(Drop(s, mt - 1)))
    ELSE NoTool

\* lines 140-151 of _infer_tool_from_text: the first rule whose tool is registered
FirstRule(reg, s, m, mq, mt) ==
    IF m # <<0, 0>> /\ "fetch_page" \in DOMAIN reg
    THEN Inferred("fetch_page", "url", SubSeq(s, m[1], m[2]))
    ELSE IF mq # <<0, 0>> /\ "web_search" \in DOMAIN reg
    THEN Inferred("web_search", "query", SubSeq(s, mq[1], mq[2]))
    ELSE IF mt # 0 /\ "web_search" \in DOMAIN reg
    THEN Inferred("web_search", "query", Strip(Drop(s, mt - 1)))
    ELSE NoTool

InferStripped(reg, s) ==
    IF s = <<>> THEN NoTool
    ELSE FirstRule(reg, s, UrlSpan(s), QuotedSpan(s), TailStart(s))

\* OperatorAgent._infer_tool_from_text: an Inferred record, or NoTool for None
InferToolFromText(reg, text) == InferStripped(reg, Strip(text))

\* What a registered handler does when it is called
HandlerBehaviours ==
    {[kind |-> "str", text |-> <<"4">>],           \* returns a str
     [kind |-> "json", text |-> <<"{\"n\": 4}">>], \* returns a JSON-serialisable value
     [kind |-> "unserialisable", text |-> <<"not", " ", "JSON", " ", "serializable">>],
     [kind |-> "raise", text |-> <<"boom">>]}      \* raises Exception("boom")

\* out = handler(args); return out if isinstance(out, str) else json.dumps(out):
\* the body of the try blocks of execute
CallHandler(beh) ==
    [raised |-> beh.kind \in {"raise", "unserialisable"}, value |-> beh.text]

\* execute as it would be without the except clauses
TryExceptPropagates(prefix, o) == [raised |-> o.raised, value |-> o.value]

\* try: ... except Exception as e: return f"<prefix>{e}"
TryExcept(prefix, o) ==
    [raised |-> FALSE, value |-> IF o.raised THEN prefix \o o.value ELSE o.value]

Invocation(n, h, a) == [name |-> n, handler |-> h, args |-> a]

Outcome(r, o, inv) == [raised |-> r, obs |-> o, invoked |-> inv]

\* lines 171-174 and 186-189: the handler call inside try / except
Guarded(prefix, beh, inv) ==
    Outcome(TryExcept(prefix, CallHandler(beh)).raised,
            TryExcept(prefix, CallHandler(beh)).value,
            <<inv>>)

\* execute as it would be if an action that selects no tool were an error
ExecuteInferredStrict(reg, act, beh, inferred) ==
    IF inferred.name # None
    THEN Guarded(<<"error:", " ", "tool_failed", " ", inferred.name, ":", " ">>, beh,
                 Invocation(inferred.name, reg[inferred.name], inferred.args))
    ELSE Outcome(TRUE, <<"no_tool_selected">>, <<>>)

\* lines 176-193 of execute: the natural-language action
ExecuteInferred(reg, act, beh, inferred) ==
    IF inferred.name # None
    THEN Guarded(<<"error:", " ", "tool_failed", " ", inferred.name, ":", " ">>, beh,
                 Invocation(inferred.name, reg[inferred.name], inferred.args))
    ELSE Outcome(FALSE,
                 <<"note:", " ", "no_tool_selected;", " ", "available:", " ">>
                    \o SortedNames(reg) \o <<";", " ", "action='">>
                    \o Strip(act.say) \o <<"'">>,
                 <<>>)

\* execute as it would be with a case-sensitive test of the action type
ExecuteCaseSensitive(reg, act, beh) ==
    IF act.type = "finish"
    THEN Outcome(FALSE, IF act.say = <<>> THEN <<"finish">> ELSE act.say, <<>>)
    ELSE IF act.name # None /\ act.name # ""
    THEN IF act.name \notin DOMAIN reg
         THEN Outcome(FALSE,
                      <<"error:", " ", "unknown_tool", " ", act.name, ";", " ",
                        "valid:", " ">> \o SortedNames(reg),
                      <<>>)
         ELSE Guarded(<<"error:", " ">>, beh,
                      Invocation(act.name, reg[act.name], act.args))
    ELSE ExecuteInferred(reg, act, beh, InferToolFromText(reg, act.say))

\* OperatorAgent.execute (progress_cb = None)
Execute(reg, act, beh) ==
    IF act.type # None /\ Lower(act.type) = "finish"
    THEN Outcome(FALSE, IF act.say = <<>> THEN <<"finish">> ELSE act.say, <<>>)
    ELSE IF act.name # None /\ act.name # ""
    THEN IF act.name \notin DOMAIN reg
         THEN Outcome(FALSE,
                      <<"error:", " ", "unknown_tool", " ", act.name, ";", " ",
                        "valid:", " ">> \o SortedNames(reg),
                      <<>>)
         ELSE Guarded(<<"error:", " ">>, beh,
                      Invocation(act.name, reg[act.name], act.args))
    ELSE ExecuteInferred(reg, act, beh, InferToolFromText(reg, act.say))

-----------------------------------------------------------------------------
(* ValidatorAgent *)

\* ^\s*Decision:\s*continue\b with re.IGNORECASE
MatchContinue(text) ==
    LET s1 == LStrip(text)
        s2 == IF s1 = <<>> THEN <<>> ELSE LStrip(Tail(s1))
    IN  /\ s1 # <<>>
        /\ Lower(Head(s1)) = "decision:"
        /\ s2 # <<>>
        /\ Lower(Head(s2)) = "continue"

\* judge as it would be if an unrecognised reply counted as the final answer
JudgeFallbackFinal(content) ==
    IF MatchFinalAnswer(Strip(content)).matched
    THEN <<TRUE, Strip(MatchFinalAnswer(Strip(content)).group)>>
    ELSE IF MatchContinue(Strip(content)) THEN <<FALSE, <<>> >>
    ELSE <<TRUE, Strip(content)>>

\* ValidatorAgent.judge, after the backend call: <<done, final_answer>>
Judge(content) ==
    LET text == Strip(content)
        m_final == MatchFinalAnswer(text)
    IN  IF m_final.matched THEN <<TRUE, Strip(m_final.group)>>
        ELSE IF MatchContinue(text) THEN <<FALSE, <<>> >>
        ELSE <<FALSE, <<>> >>

\* ValidatorAgent.finalize, after the backend call: final_txt
FinalizeText(content) ==
    LET text == Strip(content)
        m_final == MatchFinalAnswer(text)
    IN  IF m_final.matched THEN Strip(m_final.group) ELSE text


-----------------------------------------------------------------------------
(* ReActAgent: the scripted backend *)

FinalAnswerLine(txt) == <<"Final", " ", "Answer:", " ">> \o txt

MaxStepsNote ==
    <<"Note:", " ", "max", " ", "steps", " ", "reached;", " ", "answer", " ",
      "may", " ", "be", " ", "incomplete.">>

\* What the backend may answer to the Thinker's prompt
ThinkerReplies ==
    {FinalAnswerLine(<<"42">>),
     FinalAnswerLine(<<"4">>),
     <<"Thought:", " ", "compute", "\n", "Action:", " ", "calc", " ", "2+2">>,
     <<"Thought:", " ", "read", "\n", "Action:", " ", "Open", " ", "https://",
       "example.com/page">>,
     <<"Action:", " ", "search", " ", "for", " ", "\"", "climate", " ", "policy", "\"">>,
     <<"final", " ", "answer:">>}

\* What the backend may answer to the Validator's judge prompt
JudgeReplies ==
    {<<"Decision:", " ", "continue">>,
     FinalAnswerLine(<<"4">>),
     <<" ", "FINAL", "\n", "ANSWER:", "42", " ">>,
     <<"looks", " ", "fine">>}

\* What the backend may answer to the Validator's finalize prompt
FinalizeReplies ==
    {FinalAnswerLine(<<"7">>),
     <<"best", " ", "guess">>}

Prompts == {<<>>, <<"what", " ", "is", " ", "2+2">>}

\* a sub-role call of the run: text is the backend's reply (Thinker, Validator)
\* or the observation (Operator)
Called(role, step, outcome, text) ==
    [role |-> role, step |-> step, name |-> None, handler |-> None,
     args |-> <<>>, outcome |-> outcome, text |-> text, history |-> <<>>]

Invoked(step, inv) ==
    [role |-> "tool", step |-> step, name |-> inv.name, handler |-> inv.handler,
     args |-> inv.args, outcome |-> "ok", text |-> <<>>, history |-> <<>>]

\* line 328: the history_text of a step
HistoryText(lines) == Join(<<"\n", "\n">>, lines)

\* Thinker.propose called with history_text
Propose(step, history_text, outcome, text) ==
    [Called("thinker", step, outcome, text) EXCEPT !.history = history_text]

ReActStep(t, a, o) == [thought |-> t, action |-> a, observation |-> o]

Between == {"idle", "returned", "raised"}

-----------------------------------------------------------------------------
(* ReActAgent: construction and the tool registry *)

NoAction == ActionSpec(None, None, <<>>, <<>>)

\* ask has returned no AskResult; a returned content is never empty
NoResult == <<>>

EmptyRegistry == [n \in {} |-> None]

NoRun ==
    /\ pc = "idle"
    /\ step_idx = 0
    /\ thought = <<>>
    /\ action = NoAction
    /\ transcript_lines = <<>>
    /\ display_transcript_lines = <<>>
    /\ steps = <<>>
    /\ calls = <<>>
    /\ result = NoResult

\* the locals of a finished call of ask are gone
DropRun ==
    /\ pc' = "idle"
    /\ step_idx' = 0
    /\ thought' = <<>>
    /\ action' = NoAction
    /\ transcript_lines' = <<>>
    /\ display_transcript_lines' = <<>>
    /\ steps' = <<>>
    /\ calls' = <<>>
    /\ result' = NoResult

NoDirectCall == call = <<>> /\ ret = <<>>

NoMemory == items = <<>> /\ policy = <<>> /\ summarizer = None

\* __init__ as it would be without the floor of one step
InitUnclamped ==
    /\ tools = EmptyRegistry
    /\ max_rounds \in (0 - 1)..MaxRounds
    /\ max_steps = max_rounds
    /\ NoRun
    /\ NoDirectCall
    /\ NoMemory

\* ReActAgent.__init__
Init ==
    /\ tools = EmptyRegistry
    /\ max_rounds \in (0 - 1)..MaxRounds
    /\ max_steps = IF max_rounds > 1 THEN max_rounds ELSE 1
    /\ NoRun
    /\ NoDirectCall
    /\ NoMemory

\* OperatorAgent.add_tool, between two calls of ask
AddTool(name, handler) ==
    /\ pc \in Between
    /\ tools' = [n \in DOMAIN tools \cup {name} |->
                    IF n = name THEN handler ELSE tools[n]]
    /\ DropRun
    /\ UNCHANGED <<max_rounds, max_steps, call, ret, memVars>>

\* OperatorAgent.remove_tool, between two calls of ask
RemoveTool(name) ==
    /\ pc \in Between
    /\ tools' = [n \in DOMAIN tools \ {name} |-> tools[n]]
    /\ DropRun
    /\ UNCHANGED <<max_rounds, max_steps, call, ret, memVars>>

-----------------------------------------------------------------------------
(* ReActAgent.ask *)

\* lines 307-326: the empty-prompt check and the locals
Asked(prompt) ==
    /\ pc \in Between
    /\ step_idx' = IF prompt = <<>> THEN 0 ELSE 1
    /\ pc' = IF prompt = <<>> THEN "raised" ELSE "think"
    /\ thought' = <<>>
    /\ action' = NoAction
    /\ transcript_lines' = <<>>
    /\ display_transcript_lines' = <<>>
    /\ steps' = <<>>
    /\ calls' = <<>>
    /\ result' = NoResult
    /\ UNCHANGED agentVars

\* the same without a progress_cb: nothing is emitted
Ask(prompt) == Asked(prompt) /\ UNCHANGED <<call, ret, memVars>>

\* ask as it would be if it caught the Thinker's backend error and went on
ThinkRaisesSwallowed ==
    /\ pc = "think"
    /\ pc' = "operate"
    /\ calls' = Append(calls, Propose(step_idx, HistoryText(transcript_lines), "raised", <<>>))
    /\ UNCHANGED <<step_idx, thought, action, transcript_lines,
                   display_transcript_lines, steps, result>>
    /\ UNCHANGED <<agentVars, call, ret, memVars>>

\* lines 328-348, the backend call of propose raising
ThinkRaised ==
    /\ pc = "think"
    /\ pc' = "raised"
    /\ calls' = Append(calls, Propose(step_idx, HistoryText(transcript_lines), "raised", <<>>))
    /\ UNCHANGED <<step_idx, thought, action, transcript_lines,
                   display_transcript_lines, steps, result>>
    /\ UNCHANGED agentVars

\* the same without a progress_cb: nothing is emitted
ThinkRaises == ThinkRaised /\ UNCHANGED <<call, ret, memVars>>

\* ask as it would be if the display draft went into the model transcript too
RecordDraft(t, a, action_desc) ==
    /\ pc' = "operate"
    /\ thought' = t
    /\ action' = a
    /\ transcript_lines' = transcript_lines \o
           << <<"Thought:", " ">> \o
                 (IF Strip(t) = <<>> /\ Lower(a.type) = "finish" /\ Strip(a.say) # <<>>
                  THEN Strip(a.say) ELSE Strip(t)),
              <<"Action:", " ">> \o action_desc >>
    /\ display_transcript_lines' = display_transcript_lines \o
           << <<"Thought:", " ">> \o
                 (IF Strip(t) = <<>> /\ Lower(a.type) = "finish" /\ Strip(a.say) # <<>>
                  THEN Strip(a.say) ELSE Strip(t)),
              <<"Action:", " ">> \o action_desc >>

\* lines 339-348: the two transcripts of a proposed step
Record(t, a, action_desc) ==
    /\ pc' = "operate"
    /\ thought' = t
    /\ action' = a
    /\ transcript_lines' = transcript_lines \o
           << <<"Thought:", " ">> \o t, <<"Action:", " ">> \o action_desc >>
    /\ display_transcript_lines' = display_transcript_lines \o
           << <<"Thought:", " ">> \o
                 (IF Strip(t) = <<>> /\ Lower(a.type) = "finish" /\ Strip(a.say) # <<>>
                  THEN Strip(a.say) ELSE Strip(t)),
              <<"Action:", " ">> \o action_desc >>

Proposed(t, a) == Record(t, a, IF a.say # <<>> THEN a.say ELSE <<a.type>>)

Parsed(p) == Proposed(p[1], p[2])

\* lines 328-348: Thinker.propose and the two transcripts
Thought(reply) ==
    /\ pc = "think"
    /\ Parsed(ParseThoughtAndAction(reply))
    /\ calls' = Append(calls, Propose(step_idx, HistoryText(transcript_lines), "ok", reply))
    /\ UNCHANGED <<step_idx, steps, result>>
    /\ UNCHANGED agentVars

\* the same without a progress_cb: nothing is emitted
Think(reply) == Thought(reply) /\ UNCHANGED <<call, ret, memVars>>

ObservationLine(obs) == <<"Observation:", " ">> \o obs

\* lines 369-377: the observation of an executed action
Observed(o) ==
    /\ calls' = Append(calls, Called("operator", step_idx,
                                      IF o.raised THEN "raised" ELSE "ok", o.obs))
                  \o [i \in 1..Len(o.invoked) |-> Invoked(step_idx, o.invoked[i])]
    /\ IF o.raised
       THEN /\ pc' = "raised"
            /\ UNCHANGED <<transcript_lines, display_transcript_lines, steps>>
       ELSE /\ pc' = "judge"
            /\ transcript_lines' = Append(transcript_lines, ObservationLine(o.obs))
            /\ display_transcript_lines' =
                   Append(display_transcript_lines, ObservationLine(o.obs))
            /\ steps' = Append(steps, ReActStep(thought, action, o.obs))

\* lines 369-377: Operator.execute and the observation
Operated(beh) ==
    /\ pc = "operate"
    /\ Observed(Execute(tools, action, beh))
    /\ UNCHANGED <<step_idx, thought, action, result>>
    /\ UNCHANGED agentVars

\* the same without a progress_cb: nothing is emitted
Operate(beh) == Operated(beh) /\ UNCHANGED <<call, ret, memVars>>

\* lines 392-393, the backend call of judge raising
JudgeRaised ==
    /\ pc = "judge"
    /\ pc' = "raised"
    /\ calls' = Append(calls, Called("judge", step_idx, "raised", <<>>))
    /\ UNCHANGED <<step_idx, thought, action, transcript_lines,
                   display_transcript_lines, steps, result>>
    /\ UNCHANGED agentVars

\* the same without a progress_cb: nothing is emitted
JudgeRaises == JudgeRaised /\ UNCHANGED <<call, ret, memVars>>

\* ask as it would be if any verdict of the Validator ended the run
JudgedAlwaysReturns(reply, done, final_answer) ==
    /\ calls' = Append(calls, Called("judge", step_idx,
                                      IF done THEN "final" ELSE "continue", reply))
    /\ result' = JoinLines(display_transcript_lines
                              \o << <<>>, FinalAnswerLine(final_answer) >>)
    /\ pc' = "returned"
    /\ UNCHANGED step_idx

\* ask as it would be with range(1, max_steps + 2)
JudgedOffByOne(reply, done, final_answer) ==
    /\ calls' = Append(calls, Called("judge", step_idx,
                                      IF done THEN "final" ELSE "continue", reply))
    /\ IF done
       THEN /\ result' = JoinLines(display_transcript_lines
                                     \o << <<>>, FinalAnswerLine(final_answer) >>)
            /\ pc' = "returned"
            /\ UNCHANGED step_idx
       ELSE /\ UNCHANGED result
            /\ IF step_idx <= max_steps
               THEN pc' = "think" /\ step_idx' = step_idx + 1
               ELSE pc' = "finalize" /\ UNCHANGED step_idx

\* lines 393-408: the return on done, the next iteration otherwise
Judged(reply, done, final_answer) ==
    /\ calls' = Append(calls, Called("judge", step_idx,
                                      IF done THEN "final" ELSE "continue", reply))
    /\ IF done
       THEN /\ result' = JoinLines(display_transcript_lines
                                     \o << <<>>, FinalAnswerLine(final_answer) >>)
            /\ pc' = "returned"
            /\ UNCHANGED step_idx
       ELSE /\ UNCHANGED result
            /\ IF step_idx < max_steps
               THEN pc' = "think" /\ step_idx' = step_idx + 1
               ELSE pc' = "finalize" /\ UNCHANGED step_idx

Verdict(reply, j) == Judged(reply, j[1], j[2])

\* lines 392-408: Validator.judge, the return on done, the next iteration
JudgeStepped(reply) ==
    /\ pc = "judge"
    /\ Verdict(reply, Judge(reply))
    /\ UNCHANGED <<thought, action, transcript_lines, display_transcript_lines, steps>>
    /\ UNCHANGED agentVars

\* the same without a progress_cb: nothing is emitted
JudgeStep(reply) == JudgeStepped(reply) /\ UNCHANGED <<call, ret, memVars>>

\* line 411, the backend call of finalize raising
FinalizeRaised ==
    /\ pc = "finalize"
    /\ pc' = "raised"
    /\ calls' = Append(calls, Called("finalize", step_idx, "raised", <<>>))
    /\ UNCHANGED <<step_idx, thought, action, transcript_lines,
                   display_transcript_lines, steps, result>>
    /\ UNCHANGED agentVars

\* the same without a progress_cb: nothing is emitted
FinalizeRaises == FinalizeRaised /\ UNCHANGED <<call, ret, memVars>>

\* lines 410-420: Validator.finalize and the note
Finalized(reply) ==
    /\ pc = "finalize"
    /\ calls' = Append(calls, Called("finalize", step_idx, "final", reply))
    /\ result' = JoinLines(display_transcript_lines
                             \o << <<>>, FinalAnswerLine(FinalizeText(reply)),
                                   <<>>, MaxStepsNote >>)
    /\ pc' = "returned"
    /\ UNCHANGED <<step_idx, thought, action, transcript_lines,
                   display_transcript_lines, steps>>
    /\ UNCHANGED agentVars

\* the same without a progress_cb: nothing is emitted
Finalize(reply) == Finalized(reply) /\ UNCHANGED <<call, ret, memVars>>

Next ==
    \/ \E n \in ToolNames, h \in Handlers : AddTool(n, h)
    \/ \E n \in ToolNames : RemoveTool(n)
    \/ \E p \in Prompts : Ask(p)
    \/ \E r \in ThinkerReplies : Think(r)
    \/ ThinkRaises
    \/ \E b \in HandlerBehaviours : Operate(b)
    \/ \E r \in JudgeReplies : JudgeStep(r)
    \/ JudgeRaises
    \/ \E r \in FinalizeReplies : Finalize(r)
    \/ FinalizeRaises

Spec == Init /\ [][Next]_vars


-----------------------------------------------------------------------------
(* OperatorAgent.execute, called directly on any ActionSpec *)

Idle ==
    /\ max_rounds = 0
    /\ max_steps = 1
    /\ NoRun
    /\ NoMemory

RECURSIVE Flatten(_)
Flatten(ss) == IF ss = <<>> THEN <<>> ELSE Head(ss) \o Flatten(Tail(ss))

\* sequences of at most n elements of S
UpTo(S, n) == UNION {[1..k -> S] : k \in 0..n}

\* the pieces the freeform action texts are built of
Chunks ==
    {<<" ", "https://", "example.com/page">>,
     <<"search", " ">>,
     <<"Look", "up", "\n">>,
     <<"for", " ">>,
     <<"\"", "climate", " ", "policy", "\"">>,
     <<"Open">>,
     <<"\n">>,
     <<"\"">>}

FreeformTexts == {Flatten(cs) : cs \in UpTo(Chunks, MaxChunks)}

Registries == UNION {[D -> {"h1"}] : D \in SUBSET ToolNames}

ActionArgs == {<<>>, <<"expression", <<"2+2">> >>}

FinishActions ==
    {ActionSpec(t, n, <<>>, s) :
        t \in {"finish", "Finish", "FINISH"},
        n \in {None, "calculator"},
        s \in {<<>>, <<"42">>, <<" ", "done", "\n">>,
               <<"search", " ", "https://", "example.com/page">>}}

NamedActions ==
    {ActionSpec(t, n, a, s) :
        t \in {"tool", "plan", None},
        n \in ToolNames \cup {"calc"},
        a \in ActionArgs,
        s \in {<<>>, <<"Open", " ", "https://", "example.com/page">>}}

FreeformActions ==
    {ActionSpec(t, n, <<>>, s) :
        t \in {"plan"}, n \in {None, ""}, s \in FreeformTexts}

ActionSpecs == FinishActions \cup NamedActions \cup FreeformActions

\* a registry, an action and what the handler will do
InitOperator ==
    /\ tools \in Registries
    /\ call \in [fn : {"execute"}, action : ActionSpecs, beh : HandlerBehaviours]
    /\ ret = <<>>
    /\ Idle

\* observation = operator.execute(action)
OperatorExecute ==
    /\ ret = <<>>
    /\ call.fn = "execute"
    /\ ret' = <<Execute(tools, call.action, call.beh)>>
    /\ UNCHANGED <<agentVars, runVars, call, memVars>>

NextOperator == OperatorExecute

SpecOperator == InitOperator /\ [][NextOperator]_vars

-----------------------------------------------------------------------------
(* ValidatorAgent.judge, called on any reply *)

JudgeLexemes == {" ", "\n", "Final", "answer:", "Decision:", "continue", "x"}

JudgeTexts == UpTo(JudgeLexemes, MaxJudgeLen)

InitValidator ==
    /\ tools = EmptyRegistry
    /\ call \in [fn : {"judge"}, content : JudgeTexts]
    /\ ret = <<>>
    /\ Idle

\* done, final_answer, _ = validator.judge(...)
ValidatorJudge ==
    /\ ret = <<>>
    /\ call.fn = "judge"
    /\ ret' = <<Judge(call.content)>>
    /\ UNCHANGED <<agentVars, runVars, call, memVars>>

NextValidator == ValidatorJudge

SpecValidator == InitValidator /\ [][NextValidator]_vars

-----------------------------------------------------------------------------
(* ConversationMemory: every element of a text is one character *)

Max(a, b) == IF a >= b THEN a ELSE b

\* n times the character c
Rep(c, n) == [i \in 1..n |-> c]

\* text[-n:] for n >= 0: the whole text when n = 0
LastChars(s, n) ==
    IF n = 0 \/ n >= Len(s) THEN s ELSE SubSeq(s, Len(s) - n + 1, Len(s))

\* the small gap build_context keeps between the tail and the budget
GapChars == 50

\* the marker _naive_summarize puts between the two snippets: a blank, the
\* three characters of the source's literal (written here in ASCII), a blank
Ellipsis == <<" ", "~", "^", "|", " ">>

MemoryItem(role, content, tags, scope) ==
    [role |-> role, content |-> content, tags |-> tags, scope |-> scope]

\* ConversationMemory._select_items; no tags (None or []) selects everything
SelectItems(its, include_tags) ==
    IF include_tags = {} THEN its
    ELSE SelectSeq(its, LAMBDA it : it.tags \cap include_tags # {})

\* f"{it.role}: {it.content.strip()}"
ItemLine(it) == it.role \o <<":", " ">> \o Strip(it.content)

\* ConversationMemory._join
JoinItems(its) == Join(<<"\n">>, [i \in 1..Len(its) |-> ItemLine(its[i])])

\* items[:-keep_last] and items[-keep_last:] for keep_last >= 1
HeadItems(its, keep_last) == Take(its, Max(0, Len(its) - keep_last))

TailItems(its, keep_last) == LastChars(its, keep_last)

\* ConversationMemory._naive_summarize
NaiveSummarize(text, max_chars) ==
    IF max_chars <= 0 \/ text = <<>> THEN <<>>
    ELSE IF Len(text) <= max_chars THEN text
    ELSE RStrip(Take(text, max_chars \div 2)) \o Ellipsis
            \o LStrip(LastChars(text, max_chars \div 2))

\* What a custom summarizer(text, budget) does when it is called
SummarizerBehaviours == {"fits", "over", "empty", "raises"}

CallSummarizer(text, budget, beh) ==
    [raised |-> beh = "raises",
     value |-> CASE beh = "fits" -> Take(text, budget)
                 [] beh = "over" -> text
                 [] OTHER -> <<>>]

\* lines 108-114 of build_context: head_sum
HeadSum(pol, summ, head_txt, budget_for_head, beh) ==
    IF pol.summarize_beyond /\ summ # None
    THEN IF CallSummarizer(head_txt, budget_for_head, beh).raised
         THEN NaiveSummarize(head_txt, budget_for_head)
         ELSE CallSummarizer(head_txt, budget_for_head, beh).value
    ELSE NaiveSummarize(head_txt, budget_for_head)

SummaryLine(head_sum) ==
    <<"s", "u", "m", "m", "a", "r", "y", ":", " ">> \o Strip(head_sum)

\* lines 116-121 of build_context: out
Parts(head_sum, tail_txt) ==
    Join(<<"\n">>,
         (IF head_sum # <<>> THEN <<SummaryLine(head_sum)>> ELSE <<>>)
            \o (IF tail_txt # <<>> THEN <<tail_txt>> ELSE <<>>))

\* build_context as it would be without the final clip
ComposedUnclipped(head_sum, tail_txt, max_chars) == Parts(head_sum, tail_txt)

\* build_context as it would be if the final clip kept the start of the text
ComposedClippedFromStart(head_sum, tail_txt, max_chars) ==
    Take(Parts(head_sum, tail_txt), max_chars)

\* lines 116-122 of build_context: return out[-max_chars:]
Composed(head_sum, tail_txt, max_chars) ==
    LastChars(Parts(head_sum, tail_txt), max_chars)

\* budget_for_head
BudgetForHead(max_chars, tail_txt) == Max(0, max_chars - Len(tail_txt) - GapChars)

\* lines 93-122 of build_context: the selection is over the budget
OverBudget(head_txt, tail_txt, max_chars, pol, summ, beh) ==
    IF head_txt = <<>> THEN LastChars(tail_txt, max_chars)
    ELSE IF BudgetForHead(max_chars, tail_txt) <= 0
    THEN LastChars(tail_txt, max_chars)
    ELSE Composed(HeadSum(pol, summ, head_txt,
                          BudgetForHead(max_chars, tail_txt), beh),
                  tail_txt, max_chars)

\* lines 88-122 of build_context
Sized(raw, sel, keep_last, max_chars, pol, summ, beh) ==
    IF Len(raw) <= max_chars THEN raw
    ELSE OverBudget(JoinItems(HeadItems(sel, keep_last)),
                    JoinItems(TailItems(sel, keep_last)),
                    max_chars, pol, summ, beh)

\* lines 82-86 of build_context
Selected(sel, pol, summ, max_chars, beh) ==
    IF sel = <<>> THEN <<>>
    ELSE Sized(JoinItems(sel), sel, Max(1, pol.keep_last),
               IF max_chars # 0 THEN max_chars ELSE pol.max_chars,
               pol, summ, beh)

\* ConversationMemory.build_context; max_chars = 0 stands for None as well
BuildContextText(its, pol, summ, include_tags, max_chars, beh) ==
    Selected(SelectItems(its, include_tags), pol, summ, max_chars, beh)

\* MemoryPolicy(keep_last, max_chars, summarize_beyond)
MemoryPolicy(keep_last, max_chars, summarize_beyond) ==
    [keep_last |-> keep_last, max_chars |-> max_chars,
     summarize_beyond |-> summarize_beyond]

Policies ==
    {MemoryPolicy(k, m, b) : k \in 0..MaxKeep, m \in {0, 60}, b \in BOOLEAN}

\* the arguments add is called with; the last one has no content
AddInputs ==
    {MemoryItem(<<"u">>, <<"a">>, {}, "session"),
     MemoryItem(<<"a", "i">>, <<" ", "b", "\n">>, {"notes"}, "session"),
     MemoryItem(<<"u">>, Rep("c", 24), {"notes"}, "ephemeral"),
     MemoryItem(<<"u">>, Rep("d", 60), {"notes"}, "app"),
     MemoryItem(<<"u">>, <<>>, {"notes"}, "session")}

TagFilters == {{}, {"notes"}, {"plan"}}

Budgets == {0, 3, 30, 70}

\* ConversationMemory(policy, summarizer)
InitMemory ==
    /\ items = <<>>
    /\ policy \in Policies
    /\ summarizer \in {None, "custom"}
    /\ tools = EmptyRegistry
    /\ max_rounds = 0
    /\ max_steps = 1
    /\ NoRun
    /\ call = [fn |-> "__init__"]
    /\ ret = <<>>

\* add as it would be without the test of the content
AddAlways(it) ==
    /\ Len(items) < MaxItems
    /\ items' = Append(items, it)
    /\ call' = [fn |-> "add", item |-> it, before |-> items]
    /\ ret' = <<>>
    /\ UNCHANGED <<agentVars, runVars, policy, summarizer>>

\* ConversationMemory.add; call keeps the arguments and the list as it was
Add(it) ==
    /\ Len(items) < MaxItems
    /\ items' = IF it.content = <<>> THEN items ELSE Append(items, it)
    /\ call' = [fn |-> "add", item |-> it, before |-> items]
    /\ ret' = <<>>
    /\ UNCHANGED <<agentVars, runVars, policy, summarizer>>

\* clear_ephemeral as it would be if it kept only the session items
ClearEphemeralAndApp ==
    /\ items' = SelectSeq(items, LAMBDA it : it.scope = "session")
    /\ call' = [fn |-> "clear_ephemeral", before |-> items]
    /\ ret' = <<>>
    /\ UNCHANGED <<agentVars, runVars, policy, summarizer>>

\* ConversationMemory.clear_ephemeral
ClearEphemeral ==
    /\ items' = SelectSeq(items, LAMBDA it : it.scope # "ephemeral")
    /\ call' = [fn |-> "clear_ephemeral", before |-> items]
    /\ ret' = <<>>
    /\ UNCHANGED <<agentVars, runVars, policy, summarizer>>

\* ConversationMemory.clear_all
ClearAll ==
    /\ items' = <<>>
    /\ call' = [fn |-> "clear_all", before |-> items]
    /\ ret' = <<>>
    /\ UNCHANGED <<agentVars, runVars, policy, summarizer>>

\* ConversationMemory.build_context(include_tags, max_chars); beh is what the
\* custom summarizer, if there is one, does when called.  The memory is left
\* as it is, so one recorded call per state of the memory covers every call.
BuildContext(include_tags, max_chars, beh) ==
    /\ ret = <<>>
    /\ call' = [fn |-> "build_context", include_tags |-> include_tags,
                max_chars |-> max_chars, beh |-> beh]
    /\ ret' = <<BuildContextText(items, policy, summarizer,
                                 include_tags, max_chars, beh)>>
    /\ UNCHANGED <<agentVars, runVars, memVars>>

NextMemory ==
    \/ \E it \in AddInputs : Add(it)
    \/ ClearEphemeral
    \/ ClearAll
    \/ \E include_tags \in TagFilters : \E max_chars \in Budgets :
          \E beh \in IF summarizer = None THEN {None} ELSE SummarizerBehaviours :
              BuildContext(include_tags, max_chars, beh)

SpecMemory == InitMemory /\ [][NextMemory]_vars

-----------------------------------------------------------------------------
(* format_inline_citations: a text is a sequence of lexemes; a URL lexeme  *)
(* spells "https://" and a host, and the match of url_re runs on through   *)
(* the lexemes that follow it without a blank or a closing character       *)

UrlLexemes == {"https://a", "https://b"}

\* the [n] markers, by number
Markers == <<"[1]", "[2]", "[3]", "[4]", "[5]", "[6]">>

IsMarker(c) == \E k \in 1..Len(Markers) : Markers[k] = c

\* the characters url_re stops at (a marker ends with "]")
StopsUrl(c) == IsWs(c) \/ c \in {"]", ")", ">", "}", "\"", "'"} \/ IsMarker(c)

\* url.rstrip(".,);:'\"]")
RECURSIVE RStripPunct(_)
RStripPunct(u) ==
    IF u # <<>> /\ u[Len(u)] \in {".", ",", ")", ";", ":", "'", "\"", "]"}
    THEN RStripPunct(SubSeq(u, 1, Len(u) - 1)) ELSE u

\* re.search(r"\[[0-9]+\]", text)
HasMarker(text) == \E k \in 1..Len(text) : IsMarker(text[k])

\* the text before index i is blank up to the start or up to a line break
AtLineStart(text, i) ==
    \E j \in 1..i :
        /\ \A m \in j..(i - 1) : IsWs(text[m])
        /\ j = 1 \/ text[j - 1] = "\n"

\* \b after a word: the next lexeme does not go on with a word character
WordEnds(text, i) ==
    i = Len(text) \/ StopsUrl(text[i + 1])
       \/ text[i + 1] \in {".", ",", ";", ":", "[", "("}

\* re.search(r"(?mi)^\s*(sources|references)\b", text)
HasHeading(text) ==
    \E i \in 1..Len(text) :
        /\ text[i] \in {"Sources", "sources", "SOURCES",
                        "References", "references", "REFERENCES"}
        /\ AtLineStart(text, i)
        /\ WordEnds(text, i)

\* format_inline_citations as it would be without lines 28-31
AlreadyCitedNever(text) == FALSE

\* lines 28-31: citations or a sources section are already there
AlreadyCited(text) == HasMarker(text) \/ HasHeading(text)

\* the last index of the match of url_re that starts at the URL lexeme at i
UrlEnd(text, i) ==
    IF First({k \in (i + 1)..Len(text) : StopsUrl(text[k])}) = 0 THEN Len(text)
    ELSE First({k \in (i + 1)..Len(text) : StopsUrl(text[k])}) - 1

\* the trimmed URLs of the matches from index i on, in order, with repeats
RECURSIVE TrimmedUrls(_, _)
TrimmedUrls(text, i) ==
    IF i > Len(text) THEN <<>>
    ELSE IF text[i] \in UrlLexemes
    THEN <<RStripPunct(SubSeq(text, i, UrlEnd(text, i)))>>
            \o TrimmedUrls(text, UrlEnd(text, i) + 1)
    ELSE TrimmedUrls(text, i + 1)

\* seen: each trimmed URL once, in order of first appearance
RECURSIVE Dedup(_)
Dedup(us) ==
    IF us = <<>> THEN <<>>
    ELSE IF \E k \in 1..(Len(us) - 1) : us[k] = us[Len(us)]
    THEN Dedup(SubSeq(us, 1, Len(us) - 1))
    ELSE Append(Dedup(SubSeq(us, 1, Len(us) - 1)), us[Len(us)])

\* seen.index(u) + 1
IndexOf(seen, u) == First({k \in 1..Len(seen) : seen[k] = u})

\* _repl: the marker and the punctuation trimmed off the URL
Repl(seen, url) ==
    <<Markers[IndexOf(seen, RStripPunct(url))]>>
        \o SubSeq(url, Len(RStripPunct(url)) + 1, Len(url))

\* url_re.sub(_repl, text) from index i on
RECURSIVE SubUrls(_, _, _)
SubUrls(text, i, seen) ==
    IF i > Len(text) THEN <<>>
    ELSE IF text[i] \in UrlLexemes
    THEN Repl(seen, SubSeq(text, i, UrlEnd(text, i)))
            \o SubUrls(text, UrlEnd(text, i) + 1, seen)
    ELSE <<text[i]>> \o SubUrls(text, i + 1, seen)

\* "\n".join(f"[{i}] {u}" for i, u in enumerate(seen, 1))
SourcesLines(seen) ==
    Join(<<"\n">>, [k \in 1..Len(seen) |-> <<Markers[k], " ">> \o seen[k]])

\* lines 45-50
WithSources(text, seen) ==
    IF seen = <<>> THEN text
    ELSE RStrip(SubUrls(text, 1, seen)) \o <<"\n", "\n", "Sources", "\n">>
            \o SourcesLines(seen) \o <<"\n">>

\* format_inline_citations(text) for a str
FormatInlineCitations(text) ==
    IF Strip(text) = <<>> THEN text
    ELSE IF AlreadyCited(text) THEN text
    ELSE WithSources(text, Dedup(TrimmedUrls(text, 1)))

CiteLexemes ==
    UrlLexemes \cup {" ", "\n", ".", ")", "x", "[1]", "Sources"}

CiteTexts == UpTo(CiteLexemes, MaxCiteLen)

InitCitations ==
    /\ tools = EmptyRegistry
    /\ call \in [fn : {"format_inline_citations"}, text : CiteTexts]
    /\ ret = <<>>
    /\ Idle

\* out = format_inline_citations(text)
FormatOnce ==
    /\ ret = <<>>
    /\ ret' = <<FormatInlineCitations(call.text)>>
    /\ UNCHANGED <<agentVars, runVars, call, memVars>>

\* again = format_inline_citations(out)
FormatAgain ==
    /\ Len(ret) = 1
    /\ ret' = Append(ret, FormatInlineCitations(ret[1]))
    /\ UNCHANGED <<agentVars, runVars, call, memVars>>

NextCitations == FormatOnce \/ FormatAgain

SpecCitations == InitCitations /\ [][NextCitations]_vars

-----------------------------------------------------------------------------
(* OperatorAgent: add_tool, remove_tool and execute called directly; calls *)
(* is the list of the add_tool / remove_tool calls made so far             *)

\* the fields of a ToolSpec that OperatorAgent reads
ToolSpec(name, handler) == [name |-> name, handler |-> handler]

\* tools to register: the name may be empty, the handler may be no callable
ToolSpecs ==
    {ToolSpec(n, h) : n \in {"", "calculator", "fetch_page"},
                      h \in Handlers \cup {"not_callable"}}

RegistryOp(fn, name, handler) == [fn |-> fn, name |-> name, handler |-> handler]

\* tool.handler(args) of a registered tool: calling a non-callable raises TypeError
HandlerCall(handler, beh) ==
    IF handler = "not_callable"
    THEN [kind |-> "raise", text |-> <<"object", " ", "is", " ", "not", " ", "callable">>]
    ELSE beh

InitRegistry ==
    /\ tools = EmptyRegistry
    /\ call = [fn |-> "__init__"]
    /\ ret = <<>>
    /\ Idle

\* add_tool as it would be if a registered name kept its first tool
OperatorAddToolKeepFirst(tool) ==
    /\ Len(calls) < MaxOps
    /\ tools' = [n \in DOMAIN tools \cup {tool.name} |->
                    IF n \in DOMAIN tools THEN tools[n] ELSE tool.handler]
    /\ calls' = Append(calls, RegistryOp("add_tool", tool.name, tool.handler))
    /\ call' = [fn |-> "add_tool", tool |-> tool, before |-> tools, raised |-> FALSE]
    /\ ret' = <<>>
    /\ UNCHANGED <<max_rounds, max_steps, pc, step_idx, thought, action,
                   transcript_lines, display_transcript_lines, steps, result,
                   memVars>>

\* OperatorAgent.add_tool: self._tools[tool.name] = tool
OperatorAddTool(tool) ==
    /\ Len(calls) < MaxOps
    /\ tools' = [n \in DOMAIN tools \cup {tool.name} |->
                    IF n = tool.name THEN tool.handler ELSE tools[n]]
    /\ calls' = Append(calls, RegistryOp("add_tool", tool.name, tool.handler))
    /\ call' = [fn |-> "add_tool", tool |-> tool, before |-> tools, raised |-> FALSE]
    /\ ret' = <<>>
    /\ UNCHANGED <<max_rounds, max_steps, pc, step_idx, thought, action,
                   transcript_lines, display_transcript_lines, steps, result,
                   memVars>>

\* OperatorAgent.remove_tool: self._tools.pop(name, None)
OperatorRemoveTool(name) ==
    /\ Len(calls) < MaxOps
    /\ tools' = [n \in DOMAIN tools \ {name} |-> tools[n]]
    /\ calls' = Append(calls, RegistryOp("remove_tool", name, None))
    /\ call' = [fn |-> "remove_tool", name |-> name, before |-> tools, raised |-> FALSE]
    /\ ret' = <<>>
    /\ UNCHANGED <<max_rounds, max_steps, pc, step_idx, thought, action,
                   transcript_lines, display_transcript_lines, steps, result,
                   memVars>>

\* OperatorAgent.execute of an action that names its tool
OperatorExecuteNamed(name, beh) ==
    /\ ret = <<>>
    /\ call' = [fn |-> "execute", action |-> ActionSpec("tool", name, <<>>, <<>>),
                beh |-> beh]
    /\ ret' = <<Execute(tools, ActionSpec("tool", name, <<>>, <<>>),
                        IF name \in DOMAIN tools
                        THEN HandlerCall(tools[name], beh) ELSE beh)>>
    /\ UNCHANGED <<agentVars, runVars, memVars>>

NextRegistry ==
    \/ \E tool \in ToolSpecs : OperatorAddTool(tool)
    \/ \E name \in {"", "calculator", "fetch_page"} : OperatorRemoveTool(name)
    \/ \E name \in ToolNames :
          \E beh \in {b \in HandlerBehaviours : b.kind \in {"str", "raise"}} :
              OperatorExecuteNamed(name, beh)

SpecRegistry == InitRegistry /\ [][NextRegistry]_vars

-----------------------------------------------------------------------------
(* LMStudioClient.chat_completions: calls is the list of the POST attempts *)
(* of the request, pc its position, step_idx the attempt number of the     *)
(* retryer                                                                 *)

\* what session.post gives: an HTTP status, or a requests exception
PostResults == {"200", "400", "404", "429", "500", "503", "Timeout", "ConnectionError"}

\* _post_once as it would be without the test of lines 53-61
PostOutcomeNoClientCheck(status) ==
    CASE status = "429" -> "LMStudioAPIError"
      [] status \in {"500", "503"} -> "LMStudioAPIError"
      [] status \in {"Timeout", "ConnectionError"} -> "LMStudioAPIError"
      [] OTHER -> "ok"

\* _post_once: what the attempt ends with
PostOutcome(status) ==
    CASE status = "429" -> "LMStudioAPIError"
      [] status \in {"500", "503"} -> "LMStudioAPIError"
      [] status \in {"400", "404"} -> "LMStudioError"
      [] status \in {"Timeout", "ConnectionError"} -> "LMStudioAPIError"
      [] OTHER -> "ok"

\* the arguments chat_completions validates (lines 84-89)
ChatArgs ==
    [messages : {"empty", "non_empty"},
     model : {"blank", "named"},
     temperature : {"below", "in_range", "above"}]

ArgsValid(a) ==
    a.messages = "non_empty" /\ a.model = "named" /\ a.temperature = "in_range"

Post(attempt, status) == [attempt |-> attempt, status |-> status]

\* LMStudioClient(max_retries = n) and the arguments of one request
InitClient ==
    /\ tools = EmptyRegistry
    /\ max_rounds = 0
    /\ max_steps = 1
    /\ NoRun
    /\ NoMemory
    /\ call \in [fn : {"chat_completions"}, max_retries : 0..MaxRetries, args : ChatArgs]
    /\ ret = <<>>

\* chat_completions, lines 84-100: the checks, then _make_request
ChatCompletions ==
    /\ pc = "idle"
    /\ ret = <<>>
    /\ IF ArgsValid(call.args)
       THEN pc' = "retryer" /\ ret' = ret
       ELSE pc' = "raised" /\ ret' = <<[raised |-> "LMStudioError", attempt |-> 0]>>
    /\ UNCHANGED <<agentVars, step_idx, thought, action, transcript_lines,
                   display_transcript_lines, steps, calls, result, call, memVars>>

\* for _ in retryer: the retryer has no outcome of an attempt yet, so it
\* yields an attempt whatever stop_after_attempt(max_retries) says
RetryerYields ==
    /\ pc = "retryer"
    /\ step_idx' = step_idx + 1
    /\ pc' = "post"
    /\ UNCHANGED <<agentVars, thought, action, transcript_lines,
                   display_transcript_lines, steps, calls, result, call, ret,
                   memVars>>

\* return self._post_once(url, payload) in the body of the for statement:
\* the body returns the response or raises; no "with attempt" hands the
\* exception to the retryer, so it leaves _make_request and chat_completions
PostOnce(status) ==
    /\ pc = "post"
    /\ calls' = Append(calls, Post(step_idx, status))
    /\ pc' = IF PostOutcome(status) = "ok" THEN "returned" ELSE "raised"
    /\ ret' = <<[raised |-> IF PostOutcome(status) = "ok" THEN None
                            ELSE PostOutcome(status),
                 attempt |-> step_idx]>>
    /\ UNCHANGED <<agentVars, step_idx, thought, action, transcript_lines,
                   display_transcript_lines, steps, result, call, memVars>>

NextClient ==
    \/ ChatCompletions
    \/ RetryerYields
    \/ \E status \in PostResults : PostOnce(status)

SpecClient == InitClient /\ [][NextClient]_vars

-----------------------------------------------------------------------------
(* LMStudioClient.extract_content over decoded JSON responses: a value is  *)
(* a record with one field that names its type; text is a sequence of      *)
(* characters                                                              *)

Null == [null |-> TRUE]
Str(s) == [str |-> s]
Num(n) == [int |-> n]
List(xs) == [list |-> xs]
Dict(f) == [dict |-> f]

IsNull(o) == "null" \in DOMAIN o
IsStr(o) == "str" \in DOMAIN o
IsNum(o) == "int" \in DOMAIN o
IsList(o) == "list" \in DOMAIN o
IsDict(o) == "dict" \in DOMAIN o

\* bool(o)
Truthy(o) ==
    CASE IsNull(o) -> FALSE
      [] IsStr(o) -> o.str # <<>>
      [] IsNum(o) -> o.int # 0
      [] IsList(o) -> o.list # <<>>
      [] OTHER -> DOMAIN o.dict # {}

\* d.get(key) of a dict d
Get(d, key) == IF key \in DOMAIN d.dict THEN d.dict[key] ELSE Null

\* a or b
Or(a, b) == IF Truthy(a) THEN a ELSE b

EmptyDict == Dict(<<>>)

\* the order in which the keys of a decoded object are written
KeyOrder == <<"note", "tool_calls", "id", "name", "type", "text", "content",
              "value", "message", "parsed", "function", "choices", "a">>

Digits == <<"0", "1", "2", "3", "4", "5", "6", "7", "8", "9">>

\* json.dumps(o, ensure_ascii=False)
RECURSIVE JsonDumps(_)
JsonDumps(o) ==
    CASE IsNull(o) -> <<"n", "u", "l", "l">>
      [] IsStr(o) -> <<"\"">> \o o.str \o <<"\"">>
      [] IsNum(o) -> <<Digits[o.int + 1]>>
      [] IsList(o) ->
            <<"[">> \o Join(<<",", " ">>,
                            [i \in 1..Len(o.list) |-> JsonDumps(o.list[i])])
                    \o <<"]">>
      [] OTHER ->
            LET keys == SelectSeq(KeyOrder, LAMBDA k : k \in DOMAIN o.dict)
            IN  <<"{">> \o Join(<<",", " ">>,
                                [i \in 1..Len(keys) |->
                                    <<"\"", keys[i], "\"", ":", " ">>
                                    \o JsonDumps(o.dict[keys[i]])])
                        \o <<"}">>

\* _collect(obj), lines 116-132
RECURSIVE Collect(_)
RECURSIVE CollectAll(_)
Collect(obj) ==
    CASE IsStr(obj) -> IF Strip(obj.str) # <<>> THEN <<Strip(obj.str)>> ELSE <<>>
      [] IsDict(obj) ->
            (IF IsStr(Get(obj, "text")) /\ Strip(Get(obj, "text").str) # <<>>
             THEN <<Strip(Get(obj, "text").str)>>
             ELSE IF IsList(Get(obj, "text"))
                  THEN CollectAll(Get(obj, "text").list)
                  ELSE <<>>)
            \o (IF IsNull(Get(obj, "content")) THEN <<>>
                ELSE Collect(Get(obj, "content")))
            \o (IF IsNull(Get(obj, "value")) THEN <<>>
                ELSE Collect(Get(obj, "value")))
            \o (IF IsNull(Get(obj, "message")) THEN <<>>
                ELSE Collect(Get(obj, "message")))
      [] IsList(obj) -> CollectAll(obj.list)
      [] OTHER -> <<>>

CollectAll(xs) ==
    IF xs = <<>> THEN <<>> ELSE Collect(Head(xs)) \o CollectAll(Tail(xs))

\* (c.get('id') or '')[:12]
IdChars == 12

\* the exception the summary of one tool call raises, None when it has none
SummRaises(c) ==
    IF ~IsDict(c) THEN "AttributeError"
    ELSE IF ~(IsStr(Or(Get(c, "id"), Str(<<>>)))
              \/ IsList(Or(Get(c, "id"), Str(<<>>))))
    THEN "TypeError"
    ELSE IF ~IsDict(Or(Get(c, "function"), EmptyDict))
    THEN "AttributeError"
    ELSE None

\* {'id': ..., 'name': ...} of one tool call
Summ(c) ==
    LET id == Or(Get(c, "id"), Str(<<>>))
        name == Or(Get(Or(Get(c, "function"), EmptyDict), "name"), Str(<<>>))
    IN  Dict(("id" :> (IF IsStr(id) THEN Str(Take(id.str, IdChars))
                       ELSE List(Take(id.list, IdChars))))
             @@ ("name" :> name))

\* what "for c in tc" goes through, for a list or a string tc
Elements(tc) ==
    IF IsList(tc) THEN tc.list ELSE [i \in 1..Len(tc.str) |-> Str(<<tc.str[i]>>)]

Raised(kind) == [raised |-> kind, value |-> <<>>]
Success(text) == [raised |-> None, value |-> text]

\* 'no_text_content'
NoTextContent ==
    <<"n", "o", "_", "t", "e", "x", "t", "_", "c", "o", "n", "t", "e", "n", "t">>

\* lines 138-143: the tool-calls-only placeholder
ToolCallsPlaceholder(tc) ==
    IF IsNum(tc) THEN Raised("TypeError")
    ELSE IF IsDict(tc) THEN Raised("AttributeError")
    ELSE LET cs == Elements(tc)
             bad == {i \in 1..Len(cs) : SummRaises(cs[i]) # None}
         IN  IF bad # {}
             THEN Raised(SummRaises(cs[CHOOSE i \in bad : \A j \in bad : i <= j]))
             ELSE Success(JsonDumps(Dict(
                      ("note" :> Str(NoTextContent))
                      @@ ("tool_calls" :> List([i \in 1..Len(cs) |-> Summ(cs[i])])))))

\* lines 112-143, from the message on
FromMessage(msg) ==
    IF ~IsDict(msg) THEN Raised("AttributeError")
    ELSE IF IsStr(Get(msg, "content")) /\ Strip(Get(msg, "content").str) # <<>>
    THEN Success(Get(msg, "content").str)
    ELSE IF IsList(Get(msg, "content")) /\ Collect(Get(msg, "content")) # <<>>
    THEN Success(Join(<<"\n">>, Collect(Get(msg, "content"))))
    ELSE IF ~IsNull(Get(msg, "parsed"))
    THEN Success(JsonDumps(Get(msg, "parsed")))
    ELSE IF Truthy(Or(Get(msg, "tool_calls"), List(<<>>)))
    THEN ToolCallsPlaceholder(Get(msg, "tool_calls"))
    ELSE Raised("LMStudioError")

\* lines 110-112: choices[0].get('message') or {}
FromChoices(choices) ==
    CASE IsDict(choices) -> Raised("KeyError")
      [] IsNum(choices) -> Raised("TypeError")
      [] IsStr(choices) -> Raised("AttributeError")
      [] OTHER ->
            IF ~IsDict(choices.list[1]) THEN Raised("AttributeError")
            ELSE FromMessage(Or(Get(choices.list[1], "message"), EmptyDict))

\* the body of the try statement
ExtractBody(response) ==
    IF ~IsDict(response) THEN Raised("AttributeError")
    ELSE IF ~Truthy(Or(Get(response, "choices"), List(<<>>)))
    THEN Raised("LMStudioError")
    ELSE FromChoices(Get(response, "choices"))

\* except (KeyError, IndexError, TypeError): raise LMStudioError
ExceptClause(out) ==
    IF out.raised \in {"KeyError", "IndexError", "TypeError"}
    THEN Raised("LMStudioError") ELSE out

ExtractContent(response) == ExceptClause(ExtractBody(response))

\* the decoded responses
ContentTexts == {<<>>, <<" ">>, <<"h", "i">>, <<" ", "h", "i", "\n">>}

ContentLists ==
    {<<>>,
     <<Str(<<" ">>)>>,
     <<Str(<<"a">>), Str(<<" ", "b", " ">>)>>,
     <<Dict(("type" :> Str(<<"t">>)) @@ ("text" :> Str(<<"x">>)))>>,
     <<Dict(("text" :> List(<<Str(<<"x">>)>>)) @@ ("content" :> Str(<<"y">>)))>>,
     <<Dict("value" :> Dict("message" :> Str(<<"z">>)))>>,
     <<Num(7)>>,
     <<List(<<Str(<<"n">>)>>), Null>>}

Contents ==
    {Null, Num(7), Dict("text" :> Str(<<"x">>))}
    \cup {Str(t) : t \in ContentTexts}
    \cup {List(xs) : xs \in ContentLists}

Parseds == {Null, Str(<<>>), Num(0), Dict("a" :> Num(1)), List(<<>>)}

LongId == <<"c", "a", "l", "l", "_", "0", "1", "2", "3", "4", "5", "6", "7", "8">>

ToolCallLists ==
    {Null,
     List(<<>>),
     List(<<Dict(("id" :> Str(LongId))
                 @@ ("function" :> Dict("name" :> Str(<<"f">>))))>>),
     List(<<EmptyDict>>),
     List(<<Str(<<"x">>)>>),
     List(<<Dict("id" :> Num(5))>>),
     List(<<Dict("function" :> Str(<<"f">>))>>),
     Str(<<"x">>),
     Num(3),
     Dict("id" :> Str(<<"c">>))}

Messages ==
    {Null, Str(<<"h", "i">>), EmptyDict}
    \cup {Dict(("content" :> c) @@ ("parsed" :> p) @@ ("tool_calls" :> t)) :
            c \in Contents, p \in Parseds, t \in ToolCallLists}

ChoicesValues ==
    {Null, List(<<>>), List(<<Null>>), List(<<Str(<<"x">>)>>), Str(<<"x">>),
     Num(1), Dict("a" :> Num(1)), List(<<EmptyDict>>)}
    \cup {List(<<Dict("message" :> m)>>) : m \in Messages}

Responses ==
    {Null, List(<<>>), Str(<<"x">>), EmptyDict}
    \cup {Dict("choices" :> c) : c \in ChoicesValues}

InitExtract ==
    /\ tools = EmptyRegistry
    /\ max_rounds = 0
    /\ max_steps = 1
    /\ NoRun
    /\ NoMemory
    /\ call \in [fn : {"extract_content"}, response : Responses]
    /\ ret = <<>>

ExtractContentCall ==
    /\ ret = <<>>
    /\ ret' = <<ExtractContent(call.response)>>
    /\ UNCHANGED <<agentVars, runVars, call, memVars>>

NextExtract == ExtractContentCall

SpecExtract == InitExtract /\ [][NextExtract]_vars

-----------------------------------------------------------------------------
(* The planner + executor compositions: NextAgent with its Orchestrator    *)
(* and memory, and the planner + worker ReActAgent of advanced_agent.py.   *)
(* calls is the list of the sub-agent calls of one ask; a text is a        *)
(* sequence of characters, a literal of a prompt one element               *)

\* Orchestrator: max_chars of the two build_context calls and of _naive_clip
ContextChars == 1200

\* Orchestrator._wrap_cb: obs[:1500]
ObsChars == 1500

\* MemoryPolicy(): keep_last = 6, max_chars = 4000, summarize_beyond = True
KeepLastDefault == 6

MaxCharsDefault == 4000

DefaultPolicy == MemoryPolicy(KeepLastDefault, MaxCharsDefault, TRUE)

User == <<"u", "s", "e", "r">>
Assistant == <<"a", "s", "s", "i", "s", "t", "a", "n", "t">>
ToolRole == <<"t", "o", "o", "l">>
System == <<"s", "y", "s", "t", "e", "m">>

\* ConversationMemory.add as a function of the list
Added(its, role, content, tags) ==
    IF content = <<>> THEN its
    ELSE Append(its, MemoryItem(role, content, tags, "session"))

\* memory.build_context(include_tags=["summary", "notes"], max_chars=1200)
NotesContext(its) ==
    BuildContextText(its, DefaultPolicy, None, {"summary", "notes"},
                     ContextChars, "fits")

\* NextAgent._build_planner_prompt
BuildPlannerPrompt(task, prior) ==
    <<"Task:\n">> \o task
        \o (IF prior # <<>> THEN <<"\n\nPrior context (summary):\n">> \o prior
            ELSE <<>>)
        \o <<"\n\n",
             "Produce ONLY: Steps, Assumptions, Risks/Mitigations, and optional Clarifying Questions.\n",
             "Do not solve or compute anything.">>

\* NextAgent._build_exec_prompt
BuildExecPrompt(task, plan_text, notes) ==
    <<"Task:\n">> \o task
        \o <<"\n\n", "Plan (follow step-by-step; adapt if needed):\n">>
        \o plan_text
        \o (IF notes # <<>> THEN <<"\n\nNotes (summary):\n">> \o notes ELSE <<>>)
        \o <<"\n\n",
             "Use a Thought -> Action -> Observation cycle. Prefer tools when helpful.\n",
             "Stop when the task is solved and provide the Final Answer.">>

\* exec_input of ReActAgent.ask (advanced_agent.py)
ExecInput(prompt, plan) ==
    <<"Task:\n">> \o prompt \o <<"\n\nPlan:\n">> \o plan
        \o <<"\n\n", "Execute the plan carefully and provide the Final Answer.">>

\* Orchestrator._naive_clip
NaiveClip(text, max_chars) ==
    IF text = <<>> \/ max_chars <= 0 THEN <<>>
    ELSE IF Len(text) <= max_chars THEN text
    ELSE RStrip(Take(text, max_chars \div 2)) \o Ellipsis
            \o LStrip(LastChars(text, max_chars \div 2))

\* Orchestrator.plan, lines 31-35: the memory and the prompt of the planner
PlanMemory(its, task) == Added(its, User, task, {"task"})

PlanPrompt(its, task) ==
    BuildPlannerPrompt(task, NotesContext(PlanMemory(its, task)))

\* Orchestrator.plan, lines 38-40
PlanRecorded(its, content) ==
    IF Strip(content) # <<>>
    THEN Added(its, Assistant, Strip(content), {"plan"}) ELSE its

\* Orchestrator.execute, lines 47-51
ExecuteMemory(its, plan_text) == Added(its, Assistant, plan_text, {"plan"})

ExecuteGoal(its, task, plan_text) ==
    BuildExecPrompt(task, plan_text, NotesContext(ExecuteMemory(its, plan_text)))

\* a progress event of the executor and the data _wrap_cb reads
Event(event, text, name, say, decision) ==
    [event |-> event, text |-> text, name |-> name, say |-> say,
     decision |-> decision]

ExecEvents ==
    {Event("start", <<>>, <<>>, <<>>, None),
     Event("think", <<"t">>, <<"f">>, <<"s">>, None),
     Event("think", <<" ">>, <<>>, <<>>, None),
     Event("tool", <<"{", "}">>, <<"c">>, <<>>, None),
     Event("observe", <<"o", " ">>, <<>>, <<>>, None),
     Event("observe", <<>>, <<>>, <<>>, None),
     Event("judge", <<"f">>, <<>>, <<>>, "final"),
     Event("judge", <<>>, <<>>, <<>>, "continue")}

\* f"action: {an or 'nl'} {say}"
ActionHint(an, say) ==
    <<"a", "c", "t", "i", "o", "n", ":", " ">>
        \o (IF an # <<>> THEN an ELSE <<"n", "l">>) \o <<" ">> \o say

\* Orchestrator.execute._wrap_cb, lines 54-85
WrapCb(its, ev) ==
    CASE ev.event = "think" ->
            LET noted == IF Strip(ev.text) # <<>>
                         THEN Added(its, Assistant, Strip(ev.text), {"think", "notes"})
                         ELSE its
            IN  IF Strip(ev.name) # <<>> \/ Strip(ev.say) # <<>>
                THEN Added(noted, Assistant,
                           ActionHint(Strip(ev.name), Strip(ev.say)),
                           {"action", "notes"})
                ELSE noted
      [] ev.event = "tool" ->
            Added(its, ToolRole, Strip(ev.name) \o <<" ">> \o ev.text, {"action"})
      [] ev.event = "observe" ->
            IF Strip(ev.text) # <<>>
            THEN Added(its, System, Take(Strip(ev.text), ObsChars),
                       {"observation", "facts"})
            ELSE its
      [] ev.event = "judge" ->
            IF ev.decision = "final" /\ Strip(ev.text) # <<>>
            THEN Added(its, Assistant, Strip(ev.text), {"final", "summary"})
            ELSE its
      [] OTHER -> its

\* Orchestrator.execute, lines 94-101
ExecuteRecorded(its, content) ==
    IF Strip(content) = <<>> THEN its
    ELSE LET kept == Added(its, Assistant, Strip(content), {"transcript"})
         IN  IF NaiveClip(Strip(content), ContextChars) # <<>>
             THEN Added(kept, Assistant, NaiveClip(Strip(content), ContextChars),
                        {"summary"})
             ELSE kept

PlanHeading == <<"P", "l", "a", "n", "\n">>

FinalAnswerHeading ==
    <<"\n", "\n", "F", "i", "n", "a", "l", " ", "A", "n", "s", "w", "e", "r", "\n">>

\* NextAgent.ask, line 123
NextAgentContent(plan, out) ==
    PlanHeading \o Strip(plan) \o <<"\n", "\n">> \o Strip(out)

\* ReActAgent.ask (advanced_agent.py), line 95
WorkerContent(plan, out) == PlanHeading \o plan \o FinalAnswerHeading \o out

\* what a sub-agent's ask gives: an AskResult with a content, or an exception
Reply(raised, content) == [raised |-> raised, content |-> content]

PlanTexts == {<<>>, <<"p">>, <<" ", "p", "\n">>}

OutTexts == {<<>>, <<"a">>, <<"a", "\n">>}

PlannerReplies == {Reply(TRUE, <<>>)} \cup {Reply(FALSE, c) : c \in PlanTexts}

ExecutorReplies == {Reply(TRUE, <<>>)} \cup {Reply(FALSE, c) : c \in OutTexts}

SubCall(role, prompt, done, reply) ==
    [role |-> role, prompt |-> prompt, done |-> done, raised |-> reply.raised,
     content |-> reply.content]

Tasks == {<<>>, <<"q">>}

\* the memory an earlier ask("q") of the same NextAgent leaves
EarlierItems ==
    ExecuteRecorded(
        WrapCb(ExecuteMemory(PlanRecorded(PlanMemory(<<>>, <<"q">>), <<"p">>),
                             <<"p">>),
               Event("think", <<"t">>, <<"f">>, <<"s">>, None)),
        <<"a">>)

\* the position after the planner's reply, without the propagation of its
\* exception
AfterPlannerSwallowed(reply, only_plan) ==
    IF only_plan THEN "returned" ELSE "planned"

\* the position after the planner's reply: its exception leaves ask
AfterPlanner(reply, only_plan) ==
    IF reply.raised THEN "raised"
    ELSE IF only_plan THEN "returned" ELSE "planned"

\* NextAgent(...) or ReActAgent(...) of advanced_agent.py, and the arguments
\* of one ask
InitCompose ==
    /\ tools = EmptyRegistry
    /\ max_rounds = 0
    /\ max_steps = 1
    /\ NoRun
    /\ policy = DefaultPolicy
    /\ summarizer = None
    /\ call \in [fn : {"ask"}, agent : {"NextAgent", "ReActAgent"}, task : Tasks,
                 mode : {None, "planner", "react", "worker"}]
    /\ items \in IF call.agent = "NextAgent" THEN {<<>>, EarlierItems} ELSE {<<>>}
    /\ ret = <<>>

\* NextAgent.ask up to the end of Orchestrator.plan (mode "planner": the
\* whole ask)
NextAgentPlan(reply) ==
    /\ pc = "idle"
    /\ call.agent = "NextAgent"
    /\ call.mode # "react"
    /\ IF call.task = <<>>
       THEN /\ pc' = "raised"
            /\ ret' = <<Reply(TRUE, <<>>)>>
            /\ UNCHANGED <<calls, items>>
       ELSE /\ calls' = Append(calls, SubCall("planner", PlanPrompt(items, call.task),
                                              TRUE, reply))
            /\ items' = IF reply.raised THEN PlanMemory(items, call.task)
                        ELSE PlanRecorded(PlanMemory(items, call.task), reply.content)
            /\ pc' = AfterPlanner(reply, call.mode = "planner")
            /\ ret' = IF AfterPlanner(reply, call.mode = "planner") = "planned"
                      THEN ret ELSE <<reply>>
    /\ UNCHANGED <<agentVars, step_idx, thought, action, transcript_lines,
                   display_transcript_lines, steps, result, call, policy,
                   summarizer>>

\* Orchestrator.execute up to the call of executor.ask (mode "react":
\* executor.ask on the prompt itself)
NextAgentExecute ==
    /\ call.agent = "NextAgent"
    /\ \/ /\ pc = "planned"
          /\ calls' = Append(calls,
                             SubCall("executor",
                                     ExecuteGoal(items, call.task, calls[1].content),
                                     FALSE, Reply(FALSE, <<>>)))
          /\ items' = ExecuteMemory(items, calls[1].content)
       \/ /\ pc = "idle"
          /\ call.mode = "react"
          /\ calls' = Append(calls, SubCall("executor", call.task, FALSE,
                                            Reply(FALSE, <<>>)))
          /\ items' = items
    /\ pc' = "executing"
    /\ UNCHANGED <<agentVars, step_idx, thought, action, transcript_lines,
                   display_transcript_lines, steps, result, call, ret, policy,
                   summarizer>>

\* a progress event of the running executor: _wrap_cb, or nothing when the
\* executor was called without it
ExecutorEvent(ev) ==
    /\ pc = "executing"
    /\ step_idx < MaxEvents
    /\ step_idx' = step_idx + 1
    /\ items' = IF call.mode = "react" THEN items ELSE WrapCb(items, ev)
    /\ UNCHANGED <<agentVars, pc, thought, action, transcript_lines,
                   display_transcript_lines, steps, calls, result, call, ret,
                   policy, summarizer>>

\* executor.ask returns or raises: the rest of Orchestrator.execute and of
\* NextAgent.ask
NextAgentFinish(reply) ==
    /\ pc = "executing"
    /\ calls' = [calls EXCEPT ![Len(calls)] =
                    SubCall("executor", calls[Len(calls)].prompt, TRUE, reply)]
    /\ pc' = IF reply.raised THEN "raised" ELSE "returned"
    /\ items' = IF reply.raised \/ call.mode = "react" THEN items
                ELSE ExecuteRecorded(items, reply.content)
    /\ ret' = IF reply.raised \/ call.mode = "react" THEN <<reply>>
              ELSE <<Reply(FALSE, NextAgentContent(calls[1].content, reply.content))>>
    /\ UNCHANGED <<agentVars, step_idx, thought, action, transcript_lines,
                   display_transcript_lines, steps, result, call, policy,
                   summarizer>>

\* ReActAgent.ask (advanced_agent.py), lines 85-89: self.plan(prompt)
WorkerAgentPlan(reply) ==
    /\ pc = "idle"
    /\ call.agent = "ReActAgent"
    /\ call.mode # "worker"
    /\ calls' = Append(calls, SubCall("planner", call.task, TRUE, reply))
    /\ pc' = AfterPlanner(reply, call.mode = "planner")
    /\ ret' = IF AfterPlanner(reply, call.mode = "planner") = "planned"
              THEN ret ELSE <<reply>>
    /\ UNCHANGED <<agentVars, step_idx, thought, action, transcript_lines,
                   display_transcript_lines, steps, result, call, memVars>>

\* ReActAgent.ask (advanced_agent.py), lines 87-97: self.work(...)
WorkerAgentWork(reply) ==
    /\ call.agent = "ReActAgent"
    /\ \/ /\ pc = "planned"
          /\ calls' = Append(calls,
                             SubCall("worker", ExecInput(call.task, calls[1].content),
                                     TRUE, reply))
          /\ ret' = IF reply.raised THEN <<reply>>
                    ELSE <<Reply(FALSE, WorkerContent(calls[1].content, reply.content))>>
       \/ /\ pc = "idle"
          /\ call.mode = "worker"
          /\ calls' = Append(calls, SubCall("worker", call.task, TRUE, reply))
          /\ ret' = <<reply>>
    /\ pc' = IF reply.raised THEN "raised" ELSE "returned"
    /\ UNCHANGED <<agentVars, step_idx, thought, action, transcript_lines,
                   display_transcript_lines, steps, result, call, memVars>>

NextCompose ==
    \/ \E reply \in PlannerReplies : NextAgentPlan(reply)
    \/ NextAgentExecute
    \/ \E ev \in ExecEvents : ExecutorEvent(ev)
    \/ \E reply \in ExecutorReplies : NextAgentFinish(reply)
    \/ \E reply \in PlannerReplies : WorkerAgentPlan(reply)
    \/ \E reply \in ExecutorReplies : WorkerAgentWork(reply)

SpecCompose == InitCompose /\ [][NextCompose]_vars

-----------------------------------------------------------------------------
(* The single-turn tool-calling loop (SimpleAgent.ask), after section 4.3  *)
(* of the specification: pc is the state of its state machine, calls the   *)
(* backend responses of the ask, step_idx the tool iterations done,        *)
(* transcript_lines the message history                                    *)

Message(role, text) == [role |-> role, text |-> text]

\* what one backend call gives: plain content, tool-call requests (for a
\* registered tool, an unknown name, a handler that raises), or an error of
\* the backend adapter
BackendReplies ==
    {[kind |-> "content", tool |-> None],
     [kind |-> "tool_calls", tool |-> "registered"],
     [kind |-> "tool_calls", tool |-> "unknown"],
     [kind |-> "tool_calls", tool |-> "raises"],
     [kind |-> "error", tool |-> None]}

\* ToolRequested -> ExecutingTools: the observation of a requested call
ToolObservation(tool) ==
    CASE tool = "unknown" -> "unknown tool"
      [] tool = "raises" -> "error: <message>"
      [] OTHER -> "result"

\* the round budget as it would be without its test
RoundsLeftAlways(made, rounds) == TRUE

\* the round budget: another backend call may be made
RoundsLeft(made, rounds) == made < rounds

\* SimpleAgent(max_rounds, max_tool_iters)
InitSimple ==
    /\ tools = EmptyRegistry
    /\ max_rounds \in 1..MaxRounds
    /\ max_steps = 1
    /\ NoRun
    /\ NoMemory
    /\ call \in [fn : {"ask"}, max_tool_iters : 0..MaxToolIters]
    /\ ret = <<>>

\* Initial: append the user message to the history
SimpleAsk ==
    /\ pc = "idle"
    /\ pc' = "AwaitingModel"
    /\ transcript_lines' = Append(transcript_lines, Message("user", "prompt"))
    /\ UNCHANGED <<agentVars, step_idx, thought, action, display_transcript_lines,
                   steps, calls, result, call, ret, memVars>>

\* AwaitingModel: one backend call and what its response leads to
AwaitModel(reply) ==
    /\ pc = "AwaitingModel"
    /\ RoundsLeft(Len(calls), max_rounds)
    /\ calls' = Append(calls, reply)
    /\ CASE reply.kind = "content" ->
              /\ pc' = "Done"
              /\ transcript_lines' =
                    Append(transcript_lines, Message("assistant", "content"))
              /\ ret' = <<[raised |-> None, content |-> "content"]>>
         [] reply.kind = "error" ->
              /\ pc' = "Failed"
              /\ ret' = <<[raised |-> "BackendError", content |-> ""]>>
              /\ UNCHANGED transcript_lines
         [] reply.kind = "tool_calls" /\ step_idx < call.max_tool_iters ->
              /\ pc' = "ToolRequested"
              /\ UNCHANGED <<transcript_lines, ret>>
         [] OTHER ->
              /\ pc' = "Done"
              /\ transcript_lines' =
                    Append(transcript_lines,
                           Message("assistant", "max_tool_iters reached"))
              /\ ret' = <<[raised |-> None, content |-> "max_tool_iters reached"]>>
    /\ UNCHANGED <<agentVars, step_idx, thought, action, display_transcript_lines,
                   steps, result, call, memVars>>

\* Terminal Failed: the round budget is exceeded
RoundBudgetExceeded ==
    /\ pc = "AwaitingModel"
    /\ ~RoundsLeft(Len(calls), max_rounds)
    /\ pc' = "Failed"
    /\ ret' = <<[raised |-> "RoundBudgetExceeded", content |-> ""]>>
    /\ UNCHANGED <<agentVars, step_idx, thought, action, transcript_lines,
                   display_transcript_lines, steps, calls, result, call, memVars>>

\* ToolRequested -> ExecutingTools
ResolveTools ==
    /\ pc = "ToolRequested"
    /\ pc' = "ExecutingTools"
    /\ UNCHANGED <<agentVars, step_idx, thought, action, transcript_lines,
                   display_transcript_lines, steps, calls, result, call, ret,
                   memVars>>

\* ExecutingTools -> AwaitingModel: append the tool-result messages
ToolsExecuted ==
    /\ pc = "ExecutingTools"
    /\ transcript_lines' =
          Append(transcript_lines,
                 Message("tool", ToolObservation(calls[Len(calls)].tool)))
    /\ step_idx' = step_idx + 1
    /\ pc' = "AwaitingModel"
    /\ UNCHANGED <<agentVars, thought, action, display_transcript_lines, steps,
                   calls, result, call, ret, memVars>>

NextSimple ==
    \/ SimpleAsk
    \/ \E reply \in BackendReplies : AwaitModel(reply)
    \/ RoundBudgetExceeded
    \/ ResolveTools
    \/ ToolsExecuted

\* the loop is sequential code: it goes on as long as a step is possible
SpecSimple == InitSimple /\ [][NextSimple]_vars /\ WF_vars(NextSimple)

-----------------------------------------------------------------------------
(* NextAgent.split_transcript_and_final on a content of ReActAgent.ask *)

\* "Final Answer:"
FinalAnswerMarker == <<"Final", " ", "Answer:">>

\* text.rfind(t): the last place (from 0) where t starts, -1 if there is none
RFind(text, t) ==
    LET at == {i \in 0..(Len(text) - Len(t)) : SubSeq(text, i + 1, i + Len(t)) = t}
    IN  IF at = {} THEN 0 - 1 ELSE CHOOSE i \in at : \A j \in at : j <= i

SplitAt(text, i) ==
    IF i < 0 THEN <<text, <<>> >>
    ELSE <<RStrip(Take(text, i)), Strip(Drop(text, i + Len(FinalAnswerMarker)))>>

\* split_transcript_and_final as it would be without rstrip() and strip()
SplitUnstripped(text) ==
    IF text = <<>> THEN << <<>>, <<>> >>
    ELSE IF RFind(text, FinalAnswerMarker) < 0 THEN <<text, <<>> >>
    ELSE <<Take(text, RFind(text, FinalAnswerMarker)),
           Drop(text, RFind(text, FinalAnswerMarker) + Len(FinalAnswerMarker))>>

\* NextAgent.split_transcript_and_final: <<transcript, final>>
SplitTranscriptAndFinal(text) ==
    IF text = <<>> THEN << <<>>, <<>> >>
    ELSE SplitAt(text, RFind(text, FinalAnswerMarker))

-----------------------------------------------------------------------------
(* The Orchestrator's public calls on one memory, one after the other:     *)
(* items is the memory, call the last call with the memory it found, calls *)
(* the planner and executor calls it made, ret what it gave back, step_idx *)
(* the number of calls made so far                                         *)

\* largest number of Orchestrator and NextAgent calls on one memory
MaxRuns == 2

\* the progress events of one executor.ask, in the order they are emitted
EventRuns ==
    {<<>>,
     <<Event("start", <<>>, <<>>, <<>>, None),
       Event("think", <<"t">>, <<"f">>, <<"s">>, None),
       Event("tool", <<"{", "}">>, <<"c">>, <<>>, None),
       Event("observe", <<"o", " ">>, <<>>, <<>>, None),
       Event("judge", <<"f">>, <<>>, <<>>, "final")>>}

\* the plan texts a caller hands to execute_with_plan
GivenPlans == {<<>>, <<"p">>}

\* _wrap_cb on every event of a run
RECURSIVE Mirrored(_, _)
Mirrored(its, evs) ==
    IF evs = <<>> THEN its ELSE Mirrored(WrapCb(its, Head(evs)), Tail(evs))

Done(its, made, reply) == [items |-> its, calls |-> made, ret |-> reply]

\* plan as it would be if it took the task back out when the planner raises
OrchestratorPlanRolledBack(its, task, reply) ==
    IF task = <<>> THEN Done(its, <<>>, Reply(TRUE, <<>>))
    ELSE Done(IF reply.raised THEN its
              ELSE PlanRecorded(PlanMemory(its, task), reply.content),
              <<SubCall("planner", PlanPrompt(its, task), TRUE, reply)>>,
              reply)

\* Orchestrator.plan, lines 26-41
OrchestratorPlan(its, task, reply) ==
    IF task = <<>> THEN Done(its, <<>>, Reply(TRUE, <<>>))
    ELSE Done(IF reply.raised THEN PlanMemory(its, task)
              ELSE PlanRecorded(PlanMemory(its, task), reply.content),
              <<SubCall("planner", PlanPrompt(its, task), TRUE, reply)>>,
              reply)

\* execute as it would be if each run replaced the summary of the last one
OrchestratorExecuteReplacingSummary(its, task, plan_text, evs, reply) ==
    IF task = <<>> THEN Done(its, <<>>, Reply(TRUE, <<>>))
    ELSE Done(IF reply.raised THEN Mirrored(ExecuteMemory(its, plan_text), evs)
              ELSE ExecuteRecorded(
                       Mirrored(ExecuteMemory(
                                    SelectSeq(its, LAMBDA it : "summary" \notin it.tags),
                                    plan_text),
                                evs),
                       reply.content),
              <<SubCall("executor", ExecuteGoal(its, task, plan_text), TRUE, reply)>>,
              reply)

\* Orchestrator.execute, lines 44-102; evs are the events the executor
\* emitted before it returned or raised
OrchestratorExecute(its, task, plan_text, evs, reply) ==
    IF task = <<>> THEN Done(its, <<>>, Reply(TRUE, <<>>))
    ELSE Done(IF reply.raised THEN Mirrored(ExecuteMemory(its, plan_text), evs)
              ELSE ExecuteRecorded(Mirrored(ExecuteMemory(its, plan_text), evs),
                                   reply.content),
              <<SubCall("executor", ExecuteGoal(its, task, plan_text), TRUE, reply)>>,
              reply)

\* Orchestrator.ask, lines 105-113: plan, then execute on the plan's content
OrchestratorAsk(its, task, plan_reply, evs, reply) ==
    IF OrchestratorPlan(its, task, plan_reply).ret.raised
    THEN OrchestratorPlan(its, task, plan_reply)
    ELSE Done(OrchestratorExecute(OrchestratorPlan(its, task, plan_reply).items,
                                  task, plan_reply.content, evs, reply).items,
              OrchestratorPlan(its, task, plan_reply).calls
                 \o OrchestratorExecute(OrchestratorPlan(its, task, plan_reply).items,
                                        task, plan_reply.content, evs, reply).calls,
              reply)

\* a NextAgent with its empty memory
InitOrchestrator ==
    /\ tools = EmptyRegistry
    /\ max_rounds = 0
    /\ max_steps = 1
    /\ NoRun
    /\ policy = DefaultPolicy
    /\ summarizer = None
    /\ items = <<>>
    /\ call = [fn |-> "__init__", before |-> <<>>]
    /\ ret = <<>>

\* the call is over: what it left and gave back
Finished(fn, task, done) ==
    /\ step_idx < MaxRuns
    /\ step_idx' = step_idx + 1
    /\ call' = [fn |-> fn, task |-> task, before |-> items]
    /\ items' = done.items
    /\ calls' = done.calls
    /\ ret' = <<done.ret>>
    /\ UNCHANGED <<agentVars, pc, thought, action, transcript_lines,
                   display_transcript_lines, steps, result, policy, summarizer>>

\* NextAgent.plan
CallPlan(task, reply) == Finished("plan", task, OrchestratorPlan(items, task, reply))

\* NextAgent.execute_with_plan
CallExecute(task, plan_text, evs, reply) ==
    Finished("execute", task, OrchestratorExecute(items, task, plan_text, evs, reply))

\* NextAgent.ask in its default mode
CallAsk(task, plan_reply, evs, reply) ==
    Finished("ask", task, OrchestratorAsk(items, task, plan_reply, evs, reply))

\* NextAgent.reset
NextAgentReset ==
    /\ step_idx < MaxRuns
    /\ step_idx' = step_idx + 1
    /\ call' = [fn |-> "reset", before |-> items]
    /\ items' = <<>>
    /\ calls' = <<>>
    /\ ret' = <<>>
    /\ UNCHANGED <<agentVars, pc, thought, action, transcript_lines,
                   display_transcript_lines, steps, result, policy, summarizer>>

\* what a caller may put into the memory itself
CallerItems == {MemoryItem(User, <<"e">>, {"notes"}, "ephemeral")}

NextOrchestrator ==
    \/ \E task \in Tasks, reply \in PlannerReplies : CallPlan(task, reply)
    \/ \E task \in Tasks, plan_text \in GivenPlans, evs \in EventRuns,
          reply \in ExecutorReplies : CallExecute(task, plan_text, evs, reply)
    \/ \E task \in Tasks, plan_reply \in PlannerReplies, evs \in EventRuns,
          reply \in ExecutorReplies : CallAsk(task, plan_reply, evs, reply)
    \/ NextAgentReset
    \/ \E it \in CallerItems : Add(it)
    \/ ClearEphemeral
    \/ ClearAll

SpecOrchestrator == InitOrchestrator /\ [][NextOrchestrator]_vars

-----------------------------------------------------------------------------
(* ReActAgent.ask with a progress callback.  call.progress_cb is what the  *)
(* caller's callback does when it is called (None: the caller gave none),  *)
(* call.wrapper what the memory mirroring of Orchestrator.execute._wrap_cb *)
(* does (None: ask is called directly, without the Orchestrator); ret is   *)
(* the list of the calls the caller's callback received, items the         *)
(* Orchestrator's memory.  The text of an event is a sequence of lexemes.  *)

CallbackKinds == {None, "returns", "raises"}

\* a call of progress_cb(event, data): at is the number of sub-role and handler
\* calls of the run begun before it
Progress(event, step, at, text, name, say, decision) ==
    [event |-> event, step |-> step, at |-> at, text |-> text, name |-> name,
     say |-> say, decision |-> decision]

\* json.dumps(args) of an inferred call
ArgsJson(args) ==
    IF args = <<>> THEN <<"{}">>
    ELSE <<"{\"", args[1], "\": \"">> \o args[2] \o <<"\"}">>

\* try: progress_cb(...) as it would be without 'except Exception: pass'
ExceptReraise(raised) == raised

\* try: progress_cb(...) except Exception: pass -- does the exception get out
ExceptPass(raised) == FALSE

\* ask was given a progress_cb: the caller's, or _wrap_cb
HasProgressCb == call.wrapper # None \/ call.progress_cb # None

\* _wrap_cb raises: its mirroring did, or (lines 86-91) the caller's callback
\* did and the inner try let it out
WrapCbRaises == call.wrapper = "raises" \/ ExceptPass(call.progress_cb = "raises")

\* an exception of a progress call ends ask
Escapes ==
    /\ HasProgressCb
    /\ ExceptPass(IF call.wrapper = None THEN call.progress_cb = "raises"
                  ELSE WrapCbRaises)

\* _wrap_cb as it would be with the forwarding after the mirroring, no finally
EmitNoFinally(evs) ==
    /\ ret' = IF call.progress_cb # None /\ call.wrapper # "raises"
              THEN ret \o evs ELSE ret
    /\ items' = IF call.wrapper = "returns" THEN Mirrored(items, evs) ELSE items
    /\ UNCHANGED <<call, policy, summarizer>>

\* the progress calls of one step of ask: mirrored by _wrap_cb when there is
\* one (lines 55-85), and handed to the caller's callback (lines 86-91)
Emit(evs) ==
    /\ ret' = IF call.progress_cb # None THEN ret \o evs ELSE ret
    /\ items' = IF call.wrapper = "returns" THEN Mirrored(items, evs) ELSE items
    /\ UNCHANGED <<call, policy, summarizer>>

\* ask left by an exception of a progress call
Aborted ==
    /\ pc' = "raised"
    /\ UNCHANGED <<agentVars, step_idx, thought, action, transcript_lines,
                   display_transcript_lines, steps, calls, result, call, ret,
                   memVars>>

\* lines 321-325
StartEvents == <<Progress("start", 0, 0, <<>>, <<>>, <<>>, None)>>

\* action.name or action.type, as _wrap_cb reads it
NameOrType(a) == IF a.name # None THEN <<a.name>> ELSE <<a.type>>

\* lines 330-334 and 350-366
ThinkEvents(step, at, reply, t, a) ==
    <<Progress("think_raw", step, at, reply, <<>>, <<>>, None),
      Progress("think", step, at,
               IF Strip(t) = <<>> /\ Lower(a.type) = "finish" /\ Strip(a.say) # <<>>
               THEN Strip(a.say) ELSE Strip(t),
               NameOrType(a), a.say, None)>>

\* lines 164-168 and 181-185 of execute, then lines 370-390 of ask
OperateEvents(step, at, a, o) ==
    [i \in 1..Len(o.invoked) |->
        Progress("tool", step, at, ArgsJson(o.invoked[i].args),
                 <<o.invoked[i].name>>, <<>>, None)]
    \o <<Progress("operator_raw", step, at + Len(o.invoked), o.obs, <<>>, <<>>, None),
         Progress("observe", step, at + Len(o.invoked), o.obs, NameOrType(a), a.say,
                  None)>>

\* lines 396-405
JudgeEvents(step, at, reply, j) ==
    <<Progress("judge", step, at, j[2], <<>>, <<>>,
               IF j[1] THEN "final" ELSE "continue"),
      Progress("judge_raw", step, at, reply, <<>>, <<>>, None)>>

\* lines 412-418: the event after the loop, with limited_by_max_steps
FinalizeEvents(at, reply) ==
    <<Progress("judge", max_steps, at, FinalizeText(reply), <<>>, <<>>,
               "limited_by_max_steps")>>

\* the replies of the scripted backend in a run with a callback
ThinkerRepliesCb ==
    {FinalAnswerLine(<<"42">>),
     <<"Thought:", " ", "read", "\n", "Action:", " ", "Open", " ", "https://",
       "example.com/page">>,
     <<"Action:", " ", "search", " ", "for", " ", "\"", "climate", " ", "policy", "\"">>}

JudgeRepliesCb == {<<"Decision:", " ", "continue">>, FinalAnswerLine(<<"4">>)}

HandlerBehavioursCb == {b \in HandlerBehaviours : b.kind \in {"str", "raise"}}

\* an agent with fetch_page registered, and how ask is called
InitProgress ==
    /\ tools = [n \in {"fetch_page"} |-> "h1"]
    /\ max_rounds \in 1..MaxRounds
    /\ max_steps = IF max_rounds > 1 THEN max_rounds ELSE 1
    /\ NoRun
    /\ call \in [fn : {"ask"}, prompt : Prompts, progress_cb : CallbackKinds,
                 wrapper : CallbackKinds]
    /\ ret = <<>>
    /\ items = <<>>
    /\ policy = DefaultPolicy
    /\ summarizer = None

\* lines 307-326 with progress_cb
AskCb ==
    /\ pc = "idle"
    /\ IF call.prompt # <<>> /\ Escapes THEN Aborted
       ELSE /\ Asked(call.prompt)
            /\ Emit(IF call.prompt = <<>> THEN <<>> ELSE StartEvents)

\* lines 328-366 with progress_cb
ThinkCb(reply) ==
    /\ pc = "think"
    /\ IF Escapes THEN Aborted
       ELSE /\ Thought(reply)
            /\ Emit(ThinkEvents(step_idx, Len(calls) + 1, reply,
                                ParseThoughtAndAction(reply)[1],
                                ParseThoughtAndAction(reply)[2]))

\* lines 369-390 with progress_cb
OperateCb(beh) ==
    /\ pc = "operate"
    /\ IF Escapes THEN Aborted
       ELSE /\ Operated(beh)
            /\ Emit(OperateEvents(step_idx, Len(calls) + 1, action,
                                  Execute(tools, action, beh)))

\* lines 392-408 with progress_cb
JudgeCb(reply) ==
    /\ pc = "judge"
    /\ IF Escapes THEN Aborted
       ELSE /\ JudgeStepped(reply)
            /\ Emit(JudgeEvents(step_idx, Len(calls) + 1, reply, Judge(reply)))

\* lines 410-420 with progress_cb
FinalizeCb(reply) ==
    /\ pc = "finalize"
    /\ IF Escapes THEN Aborted
       ELSE /\ Finalized(reply)
            /\ Emit(FinalizeEvents(Len(calls) + 1, reply))

\* a backend call of the Thinker or the Validator raises: no progress call
BackendRaisesCb ==
    /\ ThinkRaised \/ JudgeRaised \/ FinalizeRaised
    /\ UNCHANGED <<call, ret, memVars>>

NextProgress ==
    \/ AskCb
    \/ \E r \in ThinkerRepliesCb : ThinkCb(r)
    \/ \E b \in HandlerBehavioursCb : OperateCb(b)
    \/ \E r \in JudgeRepliesCb : JudgeCb(r)
    \/ \E r \in FinalizeReplies : FinalizeCb(r)
    \/ BackendRaisesCb

SpecProgress == InitProgress /\ [][NextProgress]_vars

-----------------------------------------------------------------------------
(* Reading the history of a run *)

CallsOf(role) == {i \in DOMAIN calls : calls[i].role = role}

CallsAt(role, k) == {i \in DOMAIN calls : calls[i].role = role /\ calls[i].step = k}

\* the backend's reply to the call of role at step k (<<>> if there is none)
ReplyAt(role, k) ==
    IF CallsAt(role, k) = {} THEN <<>>
    ELSE calls[CHOOSE i \in CallsAt(role, k) : TRUE].text

EndsWith(s, t) ==
    Len(s) >= Len(t) /\ SubSeq(s, Len(s) - Len(t) + 1, Len(s)) = t

StartsWith(s, t) == Len(s) >= Len(t) /\ SubSeq(s, 1, Len(t)) = t

Answers == {<<"42">>, <<"4">>}

FirstReplyIs(X) ==
    Len(calls) >= 1 /\ calls[1].role = "thinker" /\ calls[1].text = FinalAnswerLine(X)

\* the final text each scripted judge reply carries
ScriptedFinal(reply) ==
    IF reply = <<" ", "FINAL", "\n", "ANSWER:", "42", " ">> THEN <<"42">> ELSE <<"4">>

\* the final text each scripted finalize reply carries
ScriptedFinalize(reply) ==
    IF reply = FinalAnswerLine(<<"7">>) THEN <<"7">> ELSE <<"best", " ", "guess">>

NeverFinal == \A i \in CallsOf("judge") : calls[i].outcome = "continue"

-----------------------------------------------------------------------------
(* C1 *)

\* C1 as stated: when the Thinker's first reply is "Final Answer: X", ask returns
\* after exactly one step with content ending in "Final Answer: X", and no tool is
\* invoked in that step, whatever the Validator answers.
C1_Original ==
    \A X \in Answers :
        FirstReplyIs(X) =>
            /\ step_idx = 1
            /\ pc # "finalize"
            /\ CallsOf("finalize") = {}
            /\ CallsAt("tool", 1) = {}
            /\ pc = "returned" => EndsWith(result, FinalAnswerLine(X))

\* C1 (amended): when the Thinker's first reply is "Final Answer: X", step 1
\* records a finish action with say X, its observation is X and no tool handler
\* is invoked in it; the Validator still decides: if its judge of step 1 is final
\* with text F, ask returns after exactly one step and the content is the one-step
\* transcript followed by "Final Answer: F"; if it is continue, the run goes on
\* to step 2, or to finalize when max_steps = 1.
C1_FinishIsJudged ==
    \A X \in Answers :
        FirstReplyIs(X) =>
            /\ CallsAt("tool", 1) = {}
            /\ Len(steps) >= 1 =>
                   /\ steps[1].action.type = "finish"
                   /\ steps[1].action.say = X
                   /\ steps[1].observation = X
            /\ \A i \in CallsAt("judge", 1) :
                   /\ calls[i].outcome = "final" =>
                          /\ pc = "returned"
                          /\ step_idx = 1
                          /\ Len(steps) = 1
                          /\ result = JoinLines(<< <<"Thought:", " ">> \o X,
                                                   <<"Action:", " ">> \o X,
                                                   <<"Observation:", " ">> \o X,
                                                   <<>>,
                                                   FinalAnswerLine(ScriptedFinal(calls[i].text))
                                                >>)
                   /\ calls[i].outcome = "continue" =>
                          IF max_steps = 1
                          THEN step_idx = 1 /\ pc \in {"finalize", "returned", "raised"}
                                /\ (pc = "returned" => EndsWith(result, MaxStepsNote))
                          ELSE step_idx >= 2

\* the Thinker said 42, the Validator said 4, and ask returned after one step
C1_Witness ==
    /\ FirstReplyIs(<<"42">>)
    /\ pc = "returned"
    /\ Len(steps) = 1
    /\ EndsWith(result, FinalAnswerLine(<<"4">>))

-----------------------------------------------------------------------------
(* C2 *)

\* C2: when every judge call answers continue, ask runs exactly max_steps
\* iterations (one Thinker, one Operator and one judge call each), then calls
\* finalize exactly once, and returns the display transcript followed by
\* "Final Answer: <finalize text>" and the max-steps note; finalize is called
\* only then.
C2_BudgetThenFinalize ==
    /\ (pc = "returned" /\ NeverFinal) =>
           /\ Cardinality(CallsOf("thinker")) = max_steps
           /\ Cardinality(CallsOf("operator")) = max_steps
           /\ Cardinality(CallsOf("judge")) = max_steps
           /\ \A k \in 1..max_steps :
                  /\ Cardinality(CallsAt("thinker", k)) = 1
                  /\ Cardinality(CallsAt("operator", k)) = 1
                  /\ Cardinality(CallsAt("judge", k)) = 1
           /\ Len(steps) = max_steps
           /\ Cardinality(CallsOf("finalize")) = 1
           /\ calls[Len(calls)].role = "finalize"
           /\ result # NoResult
           /\ StartsWith(result, JoinLines(display_transcript_lines))
           /\ EndsWith(result,
                       <<"\n", "\n">>
                          \o FinalAnswerLine(ScriptedFinalize(calls[Len(calls)].text))
                          \o <<"\n", "\n">> \o MaxStepsNote)
    /\ (pc = "finalize" \/ CallsOf("finalize") # {}) =>
           /\ NeverFinal
           /\ Cardinality(CallsOf("judge")) = max_steps

\* a run of two steps that the Validator never ended
C2_Witness ==
    /\ pc = "returned"
    /\ NeverFinal
    /\ max_steps = 2
    /\ Len(steps) = 2
    /\ EndsWith(result, MaxStepsNote)

-----------------------------------------------------------------------------
(* C4 *)

\* C4: a backend error of propose, judge or finalize ends ask: the failing call
\* is the last call of the run (no sub-role call or tool invocation follows it),
\* ask is in its raised state and has returned no AskResult.
C4_BackendErrorPropagates ==
    /\ \A i \in DOMAIN calls :
           calls[i].outcome = "raised" =>
               /\ i = Len(calls)
               /\ calls[i].role \in {"thinker", "judge", "finalize"}
               /\ pc = "raised"
    /\ pc = "raised" =>
           /\ result = NoResult
           /\ calls = <<>> \/ calls[Len(calls)].outcome = "raised"

\* the judge call of the second step raised
C4_Witness ==
    /\ pc = "raised"
    /\ calls # <<>>
    /\ calls[Len(calls)].role = "judge"
    /\ calls[Len(calls)].step = 2
    /\ result = NoResult

-----------------------------------------------------------------------------
(* C6 *)

CalcReply == <<"Thought:", " ", "compute", "\n", "Action:", " ", "calc", " ", "2+2">>

NoToolNote(names) ==
    <<"note:", " ", "no_tool_selected;", " ", "available:", " ">> \o names
       \o <<";", " ", "action='", "calc", " ", "2+2", "'">>

\* C6 as stated: after a step whose action "calc 2+2" selected no tool, a later
\* step in which the Thinker emits "Final Answer: 4" ends the run with content
\* ending in "Final Answer: 4".
C6_Original ==
    \A k \in 1..Len(steps) : \A j \in 1..Len(steps) :
        (/\ k < j
         /\ DOMAIN tools = {"calculator"}
         /\ ReplyAt("thinker", k) = CalcReply
         /\ ReplyAt("thinker", j) = FinalAnswerLine(<<"4">>)
         /\ CallsAt("judge", j) # {})
        => pc = "returned" /\ EndsWith(result, FinalAnswerLine(<<"4">>))

\* C6 (amended): the freeform action "calc 2+2" matches no inference rule: its
\* observation is the no_tool_selected note naming the registered tools, no
\* handler is invoked, the Operator call succeeds and the run goes on to the
\* Validator; when on a later step the Thinker emits "Final Answer: 4" and the
\* Validator's judge of that step answers "Final Answer: 4", ask returns content
\* ending in "Final Answer: 4".
C6_NoToolSelectedContinues ==
    \A k \in 1..step_idx :
        (ReplyAt("thinker", k) = CalcReply /\ CallsAt("operator", k) # {}) =>
            /\ Len(steps) >= k
            /\ steps[k].thought = <<"compute">>
            /\ steps[k].action.type = "plan"
            /\ steps[k].action.say = <<"calc", " ", "2+2">>
            /\ DOMAIN tools = {"calculator"} =>
                   steps[k].observation = NoToolNote(<<"calculator">>)
            /\ DOMAIN tools = {"calculator", "web_search"} =>
                   steps[k].observation =
                       NoToolNote(<<"calculator", ",", " ", "web_search">>)
            /\ StartsWith(steps[k].observation, <<"note:", " ", "no_tool_selected;">>)
            /\ CallsAt("tool", k) = {}
            /\ \A i \in CallsAt("operator", k) : calls[i].outcome = "ok"
            /\ (pc = "judge" /\ step_idx = k) \/ CallsAt("judge", k) # {}
            /\ \A j \in (k + 1)..Len(steps) :
                   (/\ ReplyAt("thinker", j) = FinalAnswerLine(<<"4">>)
                    /\ ReplyAt("judge", j) = FinalAnswerLine(<<"4">>))
                   => /\ pc = "returned"
                      /\ Len(steps) = j
                      /\ EndsWith(result, FinalAnswerLine(<<"4">>))

\* only a calculator registered: "calc 2+2", then "Final Answer: 4" confirmed
C6_Witness ==
    /\ DOMAIN tools = {"calculator"}
    /\ pc = "returned"
    /\ Len(steps) = 2
    /\ ReplyAt("thinker", 1) = CalcReply
    /\ steps[1].observation = NoToolNote(<<"calculator">>)
    /\ ReplyAt("thinker", 2) = FinalAnswerLine(<<"4">>)
    /\ EndsWith(result, FinalAnswerLine(<<"4">>))


-----------------------------------------------------------------------------
(* Reading a direct call *)

Returned == ret # <<>>

Executed == Returned /\ call.fn = "execute"

IsFinish(act) == act.type \in {"finish", "Finish", "FINISH"}

IsNamed(act) == ~IsFinish(act) /\ act.name \notin {None, ""}

IsFreeform(act) == ~IsFinish(act) /\ act.name \in {None, ""}

Contains(s, t) ==
    \E i \in 0..(Len(s) - Len(t)) : SubSeq(s, i + 1, i + Len(t)) = t

-----------------------------------------------------------------------------
\* C3: OperatorAgent.execute never raises on a tool problem: an unknown tool
\* name gives the observation "error: unknown_tool <name>; valid: <names>"
\* without any handler being called, and a registered handler that raises, or
\* whose return value cannot be serialised, gives an observation that starts
\* with "error: " and carries the exception text; a handler that returns
\* gives its text as the observation.
C3_ToolErrorsAreObservations ==
    Executed =>
        /\ ret[1].raised = FALSE
        /\ (IsNamed(call.action) /\ call.action.name \notin DOMAIN tools) =>
              /\ ret[1].invoked = <<>>
              /\ StartsWith(ret[1].obs,
                            <<"error:", " ", "unknown_tool", " ",
                              call.action.name, ";", " ", "valid:", " ">>)
              /\ \A n \in DOMAIN tools : Contains(ret[1].obs, <<n>>)
              /\ (DOMAIN tools = {"fetch_page", "web_search"}) =>
                    EndsWith(ret[1].obs,
                             <<"valid:", " ", "fetch_page", ",", " ", "web_search">>)
        /\ (IsNamed(call.action) /\ call.action.name \in DOMAIN tools) =>
              /\ ret[1].invoked =
                    <<Invocation(call.action.name, tools[call.action.name],
                                 call.action.args)>>
              /\ (call.beh.kind \in {"raise", "unserialisable"}) =>
                    ret[1].obs = <<"error:", " ">> \o call.beh.text
              /\ (call.beh.kind \in {"str", "json"}) =>
                    ret[1].obs = call.beh.text
        /\ (ret[1].invoked # <<>> /\ call.beh.kind \in {"raise", "unserialisable"}) =>
              /\ StartsWith(ret[1].obs, <<"error:", " ">>)
              /\ EndsWith(ret[1].obs, call.beh.text)

C3_Witness ==
    /\ Executed
    /\ call.action.name = "calculator"
    /\ call.beh.kind = "raise"
    /\ ret[1].invoked # <<>>
    /\ ret[1].obs = <<"error:", " ", "boom">>

-----------------------------------------------------------------------------
\* C5: ValidatorAgent.judge reports done exactly when the stripped reply
\* begins with "Final", whitespace, "Answer:" in any letter case; the final
\* answer is then the stripped text after the marker.  Every other reply,
\* "Decision: continue" included, gives done = False and an empty answer.
MarkerEnd(s) ==
    {k \in 3..Len(s) :
        /\ s[1] \in {"Final", "FINAL", "final"}
        /\ \A m \in 2..(k - 1) : s[m] \in {" ", "\n"}
        /\ s[k] \in {"Answer:", "ANSWER:", "answer:"}}

C5_DoneIffFinalAnswer ==
    (Returned /\ call.fn = "judge") =>
        /\ ret[1][1] = (MarkerEnd(Strip(call.content)) # {})
        /\ \A k \in MarkerEnd(Strip(call.content)) :
              ret[1][2] = Strip(SubSeq(Strip(call.content), k + 1,
                                       Len(Strip(call.content))))
        /\ (MarkerEnd(Strip(call.content)) = {}) => ret[1][2] = <<>>
        /\ (call.content = <<"Decision:", " ", "continue">>) => ret[1] = <<FALSE, <<>> >>

C5_Witness ==
    /\ Returned
    /\ call.fn = "judge"
    /\ call.content = <<"\n", "Final", "\n", "answer:", "x">>
    /\ ret[1] = <<TRUE, <<"x">> >>

-----------------------------------------------------------------------------
(* What the three inference rules match, stated over the stripped text *)

\* <<i, j>>: "http://" or "https://" at i, then non-blank text up to j
Urls(s) ==
    {p \in (1..Len(s)) \X (1..Len(s)) :
        /\ p[1] < p[2]
        /\ s[p[1]] \in {"http://", "https://"}
        /\ \A m \in (p[1] + 1)..p[2] : ~IsWs(s[m])
        /\ p[2] = Len(s) \/ IsWs(s[p[2] + 1])}

\* <<i, e>>: search, find or look up (any blanks between look and up) from i to e
VerbSpans(s) ==
    {p \in (1..Len(s)) \X (1..Len(s)) :
        \/ p[1] = p[2] /\ s[p[1]] \in {"search", "Search", "find", "Find"}
        \/ /\ p[1] < p[2]
           /\ s[p[1]] \in {"look", "Look"}
           /\ s[p[2]] \in {"up", "Up", "UP"}
           /\ \A m \in (p[1] + 1)..(p[2] - 1) : IsWs(s[m])}

\* the indices just after a non-empty run of blanks that starts at a
AfterBlanks(s, a) ==
    {r \in (a + 1)..(Len(s) + 1) : \A m \in a..(r - 1) : IsWs(s[m])}

\* <<i, r>>: a verb at i, blanks, optionally "for" and blanks, then index r
VerbThen(s) ==
    UNION {UNION {{<<p[1], r>>} \cup
                  {<<p[1], r2>> :
                      r2 \in IF r <= Len(s) /\ s[r] \in {"for", "For"}
                             THEN AfterBlanks(s, r + 1) ELSE {}}
                  : r \in AfterBlanks(s, p[2] + 1)}
           : p \in VerbSpans(s)}

\* <<i, a, b>>: a verb at i followed by a non-empty quoted phrase from a to b
Quoted(s) ==
    {<<p[1], p[2] + 1, b>> : p \in VerbThen(s), b \in 1..Len(s)} \cap
    {t \in (1..Len(s)) \X (1..Len(s)) \X (1..Len(s)) :
        /\ t[2] <= t[3]
        /\ t[3] < Len(s)
        /\ s[t[2] - 1] = "\""
        /\ \A m \in t[2]..t[3] : s[m] # "\""
        /\ s[t[3] + 1] = "\""}

\* <<i, r>>: a verb at i followed by a tail from r to the end, all on one line
Tails(s) ==
    {p \in VerbThen(s) :
        /\ p[2] <= Len(s)
        /\ \A m \in p[2]..Len(s) : s[m] # "\n"}

\* the matches that start at the leftmost place
Leftmost(S) == {p \in S : \A q \in S : p[1] <= q[1]}

\* of the leftmost matches, the ones that consumed most before the tail
Greedy(S) == {p \in Leftmost(S) : \A q \in Leftmost(S) : q[2] <= p[2]}

FetchCall(reg, u) == <<Invocation("fetch_page", reg["fetch_page"], <<"url", u>>)>>

SearchCall(reg, q) == <<Invocation("web_search", reg["web_search"], <<"query", q>>)>>

UrlRule(reg, s) == Urls(s) # {} /\ "fetch_page" \in DOMAIN reg

QuotedRule(reg, s) == Quoted(s) # {} /\ "web_search" \in DOMAIN reg

TailRule(reg, s) == Tails(s) # {} /\ "web_search" \in DOMAIN reg

\* the call the three rules, tried in order, select for the stripped text s
SelectedBy(reg, s, inv) ==
    /\ UrlRule(reg, s) =>
          \E p \in Leftmost(Urls(s)) : inv = FetchCall(reg, SubSeq(s, p[1], p[2]))
    /\ (~UrlRule(reg, s) /\ QuotedRule(reg, s)) =>
          \E t \in Leftmost(Quoted(s)) : inv = SearchCall(reg, SubSeq(s, t[2], t[3]))
    /\ (~UrlRule(reg, s) /\ ~QuotedRule(reg, s) /\ TailRule(reg, s)) =>
          \E p \in Greedy(Tails(s)) :
              inv = SearchCall(reg, Strip(SubSeq(s, p[2], Len(s))))
    /\ (~UrlRule(reg, s) /\ ~QuotedRule(reg, s) /\ ~TailRule(reg, s)) =>
          inv = <<>>

UrlAndQuoted ==
    <<"search", " ", "\"", "climate", " ", "policy", "\"",
      " ", "https://", "example.com/page">>

-----------------------------------------------------------------------------
\* C7: for a freeform action text the Operator selects the tool by the first
\* rule, in the order URL -> fetch_page {url}, verb + quoted phrase ->
\* web_search {query: phrase}, verb + unquoted tail -> web_search {query:
\* tail}, whose pattern matches and whose tool is registered; with both tools
\* registered a text holding a URL and a quoted search phrase selects
\* fetch_page, and with no applicable rule no handler is called.
C7_FirstMatchingRule ==
    (Executed /\ IsFreeform(call.action)) =>
        /\ SelectedBy(tools, Strip(call.action.say), ret[1].invoked)
        /\ (/\ Strip(call.action.say) = UrlAndQuoted
            /\ {"fetch_page", "web_search"} \subseteq DOMAIN tools) =>
               ret[1].invoked = FetchCall(tools, <<"https://", "example.com/page">>)
        /\ (/\ Strip(call.action.say) = UrlAndQuoted
            /\ "fetch_page" \notin DOMAIN tools
            /\ "web_search" \in DOMAIN tools) =>
               ret[1].invoked = SearchCall(tools, <<"climate", " ", "policy">>)
        /\ (/\ call.action.say = <<"Open", " ", "https://", "example.com/page">>
            /\ "fetch_page" \in DOMAIN tools) =>
               ret[1].invoked = FetchCall(tools, <<"https://", "example.com/page">>)
        /\ (/\ call.action.say = <<"search", " ", "for", " ",
                                   "\"", "climate", " ", "policy", "\"">>
            /\ "web_search" \in DOMAIN tools) =>
               ret[1].invoked = SearchCall(tools, <<"climate", " ", "policy">>)
        /\ (/\ call.action.say = <<"search", " ", "for", " ", "Open">>
            /\ "web_search" \in DOMAIN tools) =>
               ret[1].invoked = SearchCall(tools, <<"Open">>)

C7_Witness ==
    /\ Executed
    /\ IsFreeform(call.action)
    /\ call.action.say = UrlAndQuoted
    /\ DOMAIN tools = ToolNames
    /\ call.beh.kind = "str"
    /\ ret[1].invoked = FetchCall(tools, <<"https://", "example.com/page">>)
    /\ ret[1].obs = <<"4">>

-----------------------------------------------------------------------------
\* C8 as stated: for every finish action, also one whose say is empty or
\* missing, execute returns exactly the say text and calls no handler.
C8_Original ==
    (Executed /\ IsFinish(call.action)) =>
        /\ ret[1].obs = call.action.say
        /\ ret[1].invoked = <<>>

\* C8: for every finish action (the type compared without regard to letter
\* case, whatever its tool name) execute calls no handler and does not
\* raise; it returns the say text verbatim when that text is non-empty and
\* the literal "finish" when say is empty or missing.
C8_FinishEchoesSayOrFinish ==
    (Executed /\ IsFinish(call.action)) =>
        /\ ret[1].raised = FALSE
        /\ ret[1].invoked = <<>>
        /\ call.action.say # <<>> => ret[1].obs = call.action.say
        /\ call.action.say = <<>> => ret[1].obs = <<"finish">>

C8_Witness ==
    /\ Executed
    /\ call.action.type = "FINISH"
    /\ call.action.name = "calculator"
    /\ "calculator" \in DOMAIN tools
    /\ call.action.say = <<>>
    /\ ret[1].obs = <<"finish">>

-----------------------------------------------------------------------------
(* Reading a build_context call *)

Built == Returned /\ call.fn = "build_context"

\* the budget of the call: the argument, or the policy's when none is given
BudgetOf == IF call.max_chars # 0 THEN call.max_chars ELSE policy.max_chars

\* the items the tag filter of the call lets through, oldest first
Chosen ==
    IF call.include_tags = {} THEN items
    ELSE SelectSeq(items, LAMBDA it : it.tags \cap call.include_tags # {})

\* the last keep_last of them (at least one)
Recent ==
    {Chosen[k] : k \in {n \in 1..Len(Chosen) :
                           n > Len(Chosen) - Max(1, policy.keep_last)}}

RecentText ==
    JoinItems(SubSeq(Chosen,
                     Max(1, Len(Chosen) - Max(1, policy.keep_last) + 1),
                     Len(Chosen)))

\* the joined selection exceeds the budget
Exceeds == Chosen # <<>> /\ Len(JoinItems(Chosen)) > BudgetOf

-----------------------------------------------------------------------------
\* C9: for every memory content, tag filter, policy and budget of at least
\* one character, the text build_context returns is at most as long as the
\* budget: on the fast path, on the tail-only paths and on the summary
\* path, also when a custom summarizer returns more than its budget.
C9_WithinBudget ==
    (Built /\ BudgetOf >= 1) => Len(ret[1]) <= BudgetOf

C9_Witness ==
    /\ Built
    /\ summarizer = "custom"
    /\ policy.summarize_beyond
    /\ policy.keep_last = 1
    /\ call.beh = "over"
    /\ BudgetOf = 60
    /\ Len(JoinItems(Chosen)) = 68
    /\ Len(ret[1]) = 60
    /\ EndsWith(ret[1], <<"d", "\n", "u", ":", " ", "a">>)

-----------------------------------------------------------------------------
-----------------------------------------------------------------------------
(* Reading a call that changes the memory *)

\* a is b with some elements left out, the others in the same order
RECURSIVE IsSubseq(_, _)
IsSubseq(a, b) ==
    IF a = <<>> THEN TRUE
    ELSE IF b = <<>> THEN FALSE
    ELSE IF Head(a) = Head(b) THEN IsSubseq(Tail(a), Tail(b))
    ELSE IsSubseq(a, Tail(b))

Count(its, scope) == Cardinality({k \in 1..Len(its) : its[k].scope = scope})

-----------------------------------------------------------------------------
\* C11: add with empty content leaves the item list as it was; add with
\* non-empty content appends exactly that one item at the end and changes no
\* existing item; so after any sequence of add / clear_ephemeral / clear_all
\* no stored item has empty content, and what a call leaves of the earlier
\* items is in the order it had.
C11_AddAppendsOrNothing ==
    /\ \A k \in 1..Len(items) : items[k].content # <<>>
    /\ (call.fn = "add" /\ call.item.content = <<>>) => items = call.before
    /\ (call.fn = "add" /\ call.item.content # <<>>) =>
          /\ Len(items) = Len(call.before) + 1
          /\ \A k \in 1..Len(call.before) : items[k] = call.before[k]
          /\ items[Len(items)] = call.item
    /\ (call.fn \in {"clear_ephemeral", "clear_all"}) => IsSubseq(items, call.before)

C11_Witness ==
    /\ call.fn = "add"
    /\ call.item.content = <<>>
    /\ Len(call.before) = 2
    /\ call.before[1].content = <<" ", "b", "\n">>
    /\ call.before[2].content = <<"a">>
    /\ items = call.before

-----------------------------------------------------------------------------
\* C12: clear_ephemeral removes exactly the items whose scope is
\* "ephemeral": every "session" and "app" item stays, unchanged and in the
\* same relative order; clear_all leaves the memory empty.
C12_ClearsExactly ==
    /\ (call.fn = "clear_ephemeral") =>
          /\ \A k \in 1..Len(items) : items[k].scope # "ephemeral"
          /\ IsSubseq(items, call.before)
          /\ Count(items, "session") = Count(call.before, "session")
          /\ Count(items, "app") = Count(call.before, "app")
          /\ Len(items) = Len(call.before) - Count(call.before, "ephemeral")
    /\ (call.fn = "clear_all") => items = <<>>

C12_Witness ==
    /\ call.fn = "clear_ephemeral"
    /\ Len(call.before) = 3
    /\ call.before[1].scope = "app"
    /\ call.before[2].scope = "ephemeral"
    /\ call.before[3].scope = "session"
    /\ items = <<call.before[1], call.before[3]>>

-----------------------------------------------------------------------------
\* C13: format_inline_citations is idempotent: formatting its own output
\* gives that output again, for a text without URL, with URLs, with [n]
\* markers already there, or with a Sources heading.
C13_Idempotent ==
    Len(ret) = 2 => ret[2] = ret[1]

C13_Witness ==
    /\ Len(ret) = 2
    /\ call.text = <<"https://a", ".", " ", "https://a">>
    /\ ret[1] = <<"[1]", ".", " ", "[1]", "\n", "\n", "Sources", "\n",
                  "[1]", " ", "https://a", "\n">>
    /\ ret[2] = ret[1]

-----------------------------------------------------------------------------
(* Reading the add_tool / remove_tool calls made so far *)

\* the index of the last add_tool or remove_tool call for the name, 0 if none
LastOp(name) ==
    IF {k \in 1..Len(calls) : calls[k].name = name} = {} THEN 0
    ELSE CHOOSE k \in 1..Len(calls) :
            /\ calls[k].name = name
            /\ \A j \in (k + 1)..Len(calls) : calls[j].name # name

\* the name was registered and not removed since
Registered(name) == LastOp(name) # 0 /\ calls[LastOp(name)].fn = "add_tool"

-----------------------------------------------------------------------------
\* C14: a name is registered at most once: the registry holds exactly the
\* names whose latest call was add_tool, each with the handler of that latest
\* call (last write wins); an action naming a registered tool invokes that
\* latest handler and no other, and one naming a tool that was never
\* registered, or removed since, invokes none.
C14_LastWriteWins ==
    /\ DOMAIN tools = {n \in {"", "calculator", "fetch_page"} : Registered(n)}
    /\ \A n \in DOMAIN tools : tools[n] = calls[LastOp(n)].handler
    /\ (Executed /\ Registered(call.action.name)) =>
          ret[1].invoked =
             <<Invocation(call.action.name,
                          calls[LastOp(call.action.name)].handler, <<>>)>>
    /\ (Executed /\ ~Registered(call.action.name)) =>
          /\ ret[1].invoked = <<>>
          /\ StartsWith(ret[1].obs, <<"error:", " ", "unknown_tool", " ">>)

C14_Witness ==
    /\ Executed
    /\ call.action.name = "calculator"
    /\ calls = <<RegistryOp("add_tool", "calculator", "h1"),
                 RegistryOp("add_tool", "calculator", "h2")>>
    /\ call.beh.kind = "str"
    /\ ret[1].invoked = <<Invocation("calculator", "h2", <<>>)>>
    /\ ret[1].obs = <<"4">>

-----------------------------------------------------------------------------
\* C15 as stated: registering a tool whose name is empty or whose handler is
\* not invocable fails and leaves the registry as it was.
C15_Original ==
    (/\ call.fn = "add_tool"
     /\ call.tool.name = "" \/ call.tool.handler = "not_callable") =>
        /\ call.raised
        /\ tools = call.before

-----------------------------------------------------------------------------
(* Reading the POST attempts of a request *)

Transient(status) ==
    status \in {"429", "500", "503"}

ClientFailure(status) == status \in {"400", "404"}

Ended == pc \in {"returned", "raised"}

-----------------------------------------------------------------------------
\* C16 as stated (for max_retries >= 1): one request makes at most
\* max_retries POST attempts; after a transient failure (429 or 5xx) it
\* retries, so a request that ends with the transient error has made
\* max_retries attempts; a successful attempt ends the request with its
\* response; a request never succeeds without a successful attempt.
C16_Original ==
    (call.max_retries >= 1) =>
        /\ Len(calls) <= call.max_retries
        /\ (/\ Ended
            /\ calls # <<>>
            /\ Transient(calls[Len(calls)].status)) =>
               /\ pc = "raised"
               /\ ret[1].raised = "LMStudioAPIError"
               /\ Len(calls) = call.max_retries
        /\ \A k \in 1..Len(calls) :
              calls[k].status = "200" => (k = Len(calls) /\ pc = "returned")
        /\ pc = "returned" => (calls # <<>> /\ calls[Len(calls)].status = "200")

-----------------------------------------------------------------------------
\* C17: a 4xx response other than 429 is never retried: the POST attempt
\* that got it is the last attempt of the request, and the request raises
\* the client error (LMStudioError, not the retried LMStudioAPIError); no
\* request succeeds or goes on after such a response.
C17_ClientErrorNotRetried ==
    \A k \in 1..Len(calls) :
        ClientFailure(calls[k].status) =>
            /\ k = Len(calls)
            /\ pc = "raised"
            /\ ret # <<>>
            /\ ret[1].raised = "LMStudioError"
            /\ ret[1].attempt = calls[k].attempt

C17_Witness ==
    /\ call.max_retries = 3
    /\ calls = <<Post(1, "404")>>
    /\ pc = "raised"
    /\ ret = <<[raised |-> "LMStudioError", attempt |-> 1]>>

-----------------------------------------------------------------------------
\* C18 as stated: for every response shape extract_content returns a
\* non-empty string or raises one of the adapter's error kinds
\* (LMStudioError or its subclass LMStudioAPIError).
C18_Original ==
    ret # <<>> =>
        \/ ret[1].raised = None /\ ret[1].value # <<>>
        \/ ret[1].raised \in {"LMStudioError", "LMStudioAPIError"}

-----------------------------------------------------------------------------
(* Reading the sub-agent calls of a planner + executor ask *)

\* the ask runs the planner and then the executor (no mode that asks for
\* one of them only)
FullRun ==
    \/ call.agent = "NextAgent" /\ call.mode \notin {"planner", "react"}
    \/ call.agent = "ReActAgent" /\ call.mode \notin {"planner", "worker"}

CallsOfRole(roles) == {k \in 1..Len(calls) : calls[k].role \in roles}

\* planner once and first, executor only after a planner reply that did not
\* fail and with a prompt that holds the plan text; a planner failure ends
\* the ask with no executor call
PlanThenExecute ==
    /\ Cardinality(CallsOfRole({"planner"})) <= 1
    /\ Cardinality(CallsOfRole({"executor", "worker"})) <= 1
    /\ \A k \in CallsOfRole({"executor", "worker"}) :
          /\ k = 2
          /\ calls[1].role = "planner"
          /\ calls[1].done
          /\ ~calls[1].raised
          /\ Contains(calls[2].prompt, calls[1].content)
    /\ (calls # <<>> /\ calls[1].raised) =>
          /\ Len(calls) = 1
          /\ pc = "raised"
          /\ ret = <<Reply(TRUE, <<>>)>>
    /\ pc = "returned" =>
          /\ Len(calls) = 2
          /\ calls[2].done
          /\ ~ret[1].raised

-----------------------------------------------------------------------------
\* C19 as stated: the ask is plan then execute, and the content it returns
\* is 'Plan\n' + plan + '\n\nFinal Answer\n' + executor output, for both
\* compositions.
C19_Original ==
    FullRun =>
        /\ PlanThenExecute
        /\ pc = "returned" =>
              ret[1].content = PlanHeading \o calls[1].content
                                  \o FinalAnswerHeading \o calls[2].content

\* C19, amended: the ask is plan then execute (the planner is called once
\* and has replied before the executor is called, the executor's prompt
\* holds the plan text, a planner failure ends the ask with no executor
\* call); the planner + worker ReActAgent returns 'Plan\n' + plan +
\* '\n\nFinal Answer\n' + worker output, while NextAgent returns 'Plan\n' +
\* the stripped plan + '\n\n' + the stripped executor output, with no
\* 'Final Answer' heading of its own.
C19_PlanThenExecute ==
    FullRun =>
        /\ PlanThenExecute
        /\ pc = "returned" =>
              ret[1].content =
                  IF call.agent = "ReActAgent"
                  THEN PlanHeading \o calls[1].content
                          \o FinalAnswerHeading \o calls[2].content
                  ELSE PlanHeading \o Strip(calls[1].content) \o <<"\n", "\n">>
                          \o Strip(calls[2].content)

C19_Witness ==
    /\ call.agent = "NextAgent"
    /\ call.mode = None
    /\ pc = "returned"
    /\ Len(calls) = 2
    /\ calls[1].content = <<" ", "p", "\n">>
    /\ Contains(calls[2].prompt, <<" ", "p", "\n">>)
    /\ calls[2].content = <<"a", "\n">>
    /\ ret = <<Reply(FALSE, <<"P", "l", "a", "n", "\n", "p", "\n", "\n", "a">>)>>

-----------------------------------------------------------------------------
(* Reading a run of the single-turn loop *)

Terminal == pc \in {"Done", "Failed"}

\* at most max_rounds backend calls; Done carries a content that is not
\* empty, Failed an error; a run that used up the round budget on
\* tool-call responses has failed with RoundBudgetExceeded
WithinRounds ==
    /\ Len(calls) <= max_rounds
    /\ pc = "Done" => (ret[1].raised = None /\ ret[1].content # "")
    /\ pc = "Failed" => ret[1].raised \in {"RoundBudgetExceeded", "BackendError"}
    /\ ~Terminal => ret = <<>>
    /\ (/\ Terminal
        /\ Len(calls) = max_rounds
        /\ calls[Len(calls)].kind = "tool_calls"
        /\ step_idx = Len(calls)) =>
           (pc = "Failed" /\ ret[1].raised = "RoundBudgetExceeded")

-----------------------------------------------------------------------------
\* C20: every ask of the single-turn loop ends in Done or Failed; it makes at
\* most max_rounds backend calls; when the round budget is used up without
\* plain content it fails with RoundBudgetExceeded, and nothing empty is
\* returned as a success.
C20_EndsWithinRounds == [](WithinRounds) /\ <>(Terminal)

C20_Witness ==
    /\ pc = "Failed"
    /\ ret = <<[raised |-> "RoundBudgetExceeded", content |-> ""]>>
    /\ Len(calls) = max_rounds
    /\ max_rounds = 2
    /\ \A k \in 1..Len(calls) : calls[k].kind = "tool_calls"

-----------------------------------------------------------------------------
(* Reading the content of a returned run *)

DisplayTranscript == JoinLines(display_transcript_lines)

\* the run returned from a judge call that said final
ConfirmedReturn ==
    pc = "returned" /\ calls # <<>> /\ calls[Len(calls)].role = "judge"

\* the run returned from finalize, after max_steps steps
ExhaustedReturn ==
    pc = "returned" /\ calls # <<>> /\ calls[Len(calls)].role = "finalize"

\* final_answer of the judge call, final_txt of the finalize call
FinalText ==
    IF calls[Len(calls)].role = "judge" THEN Judge(calls[Len(calls)].text)[2]
    ELSE FinalizeText(calls[Len(calls)].text)

NoMarkerIn(text) == RFind(text, FinalAnswerMarker) < 0

-----------------------------------------------------------------------------
\* C21 as stated: for every content that ask returns, on the confirmed and on
\* the budget-exhausted path, split_transcript_and_final gives the display
\* transcript and exactly the final answer text.
C21_Original ==
    pc = "returned" =>
        SplitTranscriptAndFinal(result) = <<DisplayTranscript, FinalText>>

\* C21, amended: when the final answer text holds no 'Final Answer:' of its
\* own, splitting the content on the last 'Final Answer:' gives the display
\* transcript with its trailing whitespace removed as the first part; the
\* second part is exactly the final answer text on the validator-confirmed
\* path, and on the budget-exhausted path the final answer text followed by
\* a blank line and the note 'Note: max steps reached; answer may be
\* incomplete.' (stripped).
C21_SplitOfContent ==
    (pc = "returned" /\ NoMarkerIn(FinalText)) =>
        /\ ConfirmedReturn =>
              SplitTranscriptAndFinal(result) = <<RStrip(DisplayTranscript), FinalText>>
        /\ ExhaustedReturn =>
              SplitTranscriptAndFinal(result) =
                  <<RStrip(DisplayTranscript),
                    Strip(FinalText \o <<"\n", "\n">> \o MaxStepsNote)>>
        /\ ConfirmedReturn \/ ExhaustedReturn

C21_Witness ==
    /\ ExhaustedReturn
    /\ FinalText = <<"7">>
    /\ SplitTranscriptAndFinal(result)[2] = <<"7", "\n", "\n">> \o MaxStepsNote
    /\ SplitTranscriptAndFinal(result)[1] = RStrip(DisplayTranscript)
    /\ DisplayTranscript # <<>>

-----------------------------------------------------------------------------
(* Reading the head summary of a build_context call *)

\* the joined lines of the selected items before the last keep_last
HeadText == JoinItems(HeadItems(Chosen, Max(1, policy.keep_last)))

\* b = max_chars - len(tail) - 50
HeadBudget == BudgetOf - Len(RecentText) - GapChars

\* the call summarized the head with _naive_summarize
NaiveFallback ==
    /\ Built
    /\ Exceeds
    /\ HeadText # <<>>
    /\ HeadBudget > 0
    /\ \/ ~(policy.summarize_beyond /\ summarizer # None)
       \/ call.beh = "raises"

-----------------------------------------------------------------------------
\* C22 as stated: when build_context summarizes the head with the naive
\* fallback, for the budget b = max_chars - len(tail) - 50 > 0 the naive
\* summary of the head is at most b characters long.
C22_Original ==
    NaiveFallback => Len(NaiveSummarize(HeadText, HeadBudget)) <= HeadBudget

-----------------------------------------------------------------------------
(* Reading the order of the role calls of a run *)

IsRoleCall(c) == c.role # "tool"

\* the calls of ask to its three agents, in order, without the handlers' records
RoleCalls == SelectSeq(calls, IsRoleCall)

StepRoles == <<"thinker", "operator", "judge">>

\* the i-th role call is the ((i-1) mod 3 + 1)-th role of step (i-1) div 3 + 1
InStepOrder(i) ==
    /\ RoleCalls[i].role = StepRoles[((i - 1) % 3) + 1]
    /\ RoleCalls[i].step = ((i - 1) \div 3) + 1

FinalizeCalled == CallsOf("finalize") # {}

\* a call that did not come back normally, or that ended the run, is the last one
EndsRun(c) == c.outcome \in {"raised", "final"}

-----------------------------------------------------------------------------
\* C23: in every step of ReActAgent.ask, Thinker.propose, Operator.execute and
\* Validator.judge are each called once, in that order (a call that raises ends
\* the run there), also when the action is a finish action; ask returns without
\* finalize only in a step whose judge call returned final, and finalize is
\* called exactly when all max_steps judge calls returned continue.
C23_StepOrder ==
    /\ \A i \in DOMAIN RoleCalls :
          /\ RoleCalls[i].role # "finalize" => InStepOrder(i)
          /\ RoleCalls[i].role = "finalize" =>
                /\ i = Len(RoleCalls)
                /\ i = 3 * max_steps + 1
                /\ \A j \in 1..(i - 1) : ~EndsRun(RoleCalls[j])
          /\ EndsRun(RoleCalls[i]) => i = Len(RoleCalls)
          /\ RoleCalls[i].outcome = "final" => RoleCalls[i].role \in {"judge", "finalize"}
    /\ \A k \in 1..max_steps : \A r \in {"thinker", "operator", "judge"} :
          Cardinality(CallsAt(r, k)) <= 1
    /\ Len(RoleCalls) <= 3 * max_steps + 1
    /\ (pc = "returned" /\ ~FinalizeCalled) =>
          /\ RoleCalls[Len(RoleCalls)].role = "judge"
          /\ RoleCalls[Len(RoleCalls)].outcome = "final"
          /\ Len(RoleCalls) = 3 * step_idx
    /\ (Cardinality(CallsOf("judge")) = max_steps /\ NeverFinal) <=>
          (pc = "finalize" \/ FinalizeCalled)

\* a run of two steps whose second action is a finish action, ended by finalize
C23_Witness ==
    /\ pc = "returned"
    /\ FinalizeCalled
    /\ max_steps = 2
    /\ Len(steps) = 2
    /\ Lower(steps[2].action.type) = "finish"
    /\ Cardinality(CallsAt("operator", 2)) = 1
    /\ Cardinality(CallsAt("judge", 2)) = 1

-----------------------------------------------------------------------------
(* Reading the model-facing transcript *)

ActionDesc(a) == IF a.say # <<>> THEN a.say ELSE <<a.type>>

ThoughtLine(t) == <<"Thought:", " ">> \o t

ActionLine(a) == <<"Action:", " ">> \o ActionDesc(a)

\* the three lines of the steps stps, in order
RECURSIVE StepLines(_)
StepLines(stps) ==
    IF stps = <<>> THEN <<>>
    ELSE <<ThoughtLine(stps[1].thought), ActionLine(stps[1].action),
           ObservationLine(stps[1].observation)>> \o StepLines(Tail(stps))

IsPrefix(s, t) == Len(s) <= Len(t) /\ SubSeq(t, 1, Len(s)) = s

\* the transcript holds the lines of the completed steps, and while a step is
\* between propose and execute also its Thought and Action lines
TranscriptOfSteps ==
    /\ Take(transcript_lines, 3 * Len(steps)) = StepLines(steps)
    /\ pc \in {"idle", "think", "judge", "finalize", "returned"} =>
          Len(transcript_lines) = 3 * Len(steps)
    /\ pc = "operate" =>
          transcript_lines =
              StepLines(steps) \o <<ThoughtLine(thought), ActionLine(action)>>
    /\ pc = "raised" => Len(transcript_lines) \in {3 * Len(steps), 3 * Len(steps) + 2}
    /\ pc = "think" => Len(steps) = step_idx - 1
    /\ pc \in {"judge", "finalize", "returned"} => Len(steps) = step_idx

\* every call of the Thinker got the transcript of the steps before its own
HistoryIsEarlierSteps ==
    \A i \in CallsOf("thinker") :
        /\ calls[i].history = HistoryText(Take(transcript_lines, 3 * (calls[i].step - 1)))
        /\ calls[i].history = HistoryText(StepLines(Take(steps, calls[i].step - 1)))
        /\ calls[i].step = 1 => calls[i].history = <<>>

\* within a call of ask the transcript only grows at its end
AppendOnly == pc \notin Between => IsPrefix(transcript_lines, transcript_lines')

-----------------------------------------------------------------------------
\* C24: the model-facing transcript of ReActAgent.ask is append-only: after k
\* completed steps it holds exactly 3k lines, Thought, Action, Observation per
\* step in that order, earlier lines are never changed, and the history given
\* to the Thinker at step k is the transcript of steps 1..k-1, empty at step 1.
C24_TranscriptAppendOnly ==
    /\ [](TranscriptOfSteps /\ HistoryIsEarlierSteps)
    /\ [][AppendOnly]_vars

\* two completed steps, the second proposed from the three lines of the first
C24_Witness ==
    /\ Len(steps) = 2
    /\ Len(transcript_lines) = 6
    /\ \E i \in CallsAt("thinker", 2) :
          /\ calls[i].history = HistoryText(StepLines(Take(steps, 1)))
          /\ calls[i].history # <<>>
    /\ steps[1].thought = <<>>
    /\ Lower(steps[1].action.type) = "finish"

-----------------------------------------------------------------------------
(* Reading the step budget *)

CallsOfStep(role) == Cardinality(CallsOf(role))

Finalizing == pc = "finalize" \/ FinalizeCalled

-----------------------------------------------------------------------------
\* C29: the step budget is clamped to at least one, max_steps = max(1,
\* max_rounds): for max_rounds <= 0 ask runs exactly one full Thinker, Operator,
\* Validator step before it may finalize, and for max_rounds >= 1 the number of
\* steps never exceeds max_rounds.
C29_ClampedBudget ==
    /\ max_steps = Max(1, max_rounds)
    /\ max_steps >= 1
    /\ max_rounds <= 0 =>
          /\ step_idx <= 1
          /\ Len(steps) <= 1
          /\ Finalizing =>
                /\ Len(steps) = 1
                /\ CallsOfStep("thinker") = 1
                /\ CallsOfStep("operator") = 1
                /\ CallsOfStep("judge") = 1
                /\ NeverFinal
    /\ max_rounds >= 1 =>
          /\ step_idx <= max_rounds
          /\ Len(steps) <= max_rounds
          /\ CallsOfStep("thinker") <= max_rounds
          /\ Finalizing => Len(steps) = max_rounds

\* an agent built with a negative max_rounds that finalized after its one step
C29_Witness ==
    /\ max_rounds < 0
    /\ pc = "returned"
    /\ FinalizeCalled
    /\ Len(steps) = 1
    /\ CallsOfStep("judge") = 1

-----------------------------------------------------------------------------
(* Reading the handler invocations of a run *)

\* the actions a caller can hand to execute with an explicit tool name
ExplicitActions ==
    {ActionSpec(ty, n, <<>>, s) :
        ty \in {"tool", "FINISH"}, n \in ToolNames, s \in {<<"x">>}}

\* what the Operator invoked for this action, whatever the handler does
InvokedBy(reg, act) == {Execute(reg, act, beh).invoked : beh \in HandlerBehaviours}

\* the handler registered under the name, once at most
OnlyRegistered(reg, invs) ==
    \A inv \in invs :
        /\ Len(inv) <= 1
        /\ \A i \in DOMAIN inv :
              /\ inv[i].name \in DOMAIN reg
              /\ inv[i].handler = reg[inv[i].name]

\* the operator call of step k and the handler it invoked, in that order
ToolAfterOperator(k) ==
    \A i \in CallsAt("tool", k) :
        /\ i > 1
        /\ calls[i - 1].role = "operator"
        /\ calls[i - 1].step = k

-----------------------------------------------------------------------------
\* C30: in one ReAct step the Operator invokes at most one tool handler, and
\* only the handler currently registered under the selected name; a finish
\* action, an unknown explicit name and an unmatched freeform action invoke
\* none, a tool removed with remove_tool is not invoked by a later step, and the
\* invocations of a run are sequential, one per step at most.
C30_OneRegisteredHandler ==
    /\ \A k \in 1..max_steps :
          /\ Cardinality(CallsAt("tool", k)) <= 1
          /\ ToolAfterOperator(k)
    /\ \A i \in CallsOf("tool") :
          /\ calls[i].name \in DOMAIN tools
          /\ calls[i].handler = tools[calls[i].name]
    /\ pc = "judge" =>
          /\ Len(steps) = step_idx
          /\ IF \/ Lower(action.type) = "finish"
                \/ InferToolFromText(tools, action.say).name = None
             THEN CallsAt("tool", step_idx) = {}
             ELSE \A i \in CallsAt("tool", step_idx) :
                     calls[i].name = InferToolFromText(tools, action.say).name
    /\ pc = "idle" =>
          \A act \in ExplicitActions :
              /\ OnlyRegistered(tools, InvokedBy(tools, act))
              /\ (act.name \notin DOMAIN tools \/ Lower(act.type) = "finish")
                    => InvokedBy(tools, act) = {<<>>}

\* a run of two steps on a registry that holds fetch_page and no web_search:
\* step 1 asks for a search and invokes nothing, step 2 invokes fetch_page
C30_Witness ==
    /\ DOMAIN tools = {"fetch_page"}
    /\ Len(steps) = 2
    /\ steps[1].action.say = <<"search", " ", "for", " ", "\"", "climate", " ", "policy", "\"">>
    /\ CallsAt("tool", 1) = {}
    /\ \E i \in CallsAt("tool", 2) :
          calls[i].name = "fetch_page" /\ calls[i].handler = tools["fetch_page"]

-----------------------------------------------------------------------------
(* Reading a call on the Orchestrator's memory *)

Appending == {"plan", "execute", "ask"}

Removing == {"clear_ephemeral", "clear_all", "reset"}

\* the items the last call found are still there, in order, before any new one
KeptAll == IsPrefix(call.before, items)

-----------------------------------------------------------------------------
\* C27: Orchestrator.plan, execute and ask only append to memory: the item
\* sequence before the call is a prefix of the sequence after it, over any
\* number of calls; items are removed only by clear_ephemeral, clear_all or
\* NextAgent.reset, and after NextAgent.reset the memory is empty.
C27_AppendOnlyMemory ==
    /\ call.fn \in Appending => KeptAll
    /\ ~KeptAll => call.fn \in Removing
    /\ call.fn = "reset" => items = <<>>

\* a second ask that found the items of the first and added its own after them
C27_Witness ==
    /\ call.fn = "ask"
    /\ step_idx = 2
    /\ call.before # <<>>
    /\ Len(items) > Len(call.before) + 3
    /\ KeptAll
    /\ \E k \in DOMAIN call.before : "summary" \in call.before[k].tags

-----------------------------------------------------------------------------
(* Reading the failure of a plan or execute call *)

Failed == ret # <<>> /\ ret[1].raised

TaskItem(task) == MemoryItem(User, task, {"task"}, "session")

PlannerRaised == calls # <<>> /\ calls[1].role = "planner" /\ calls[1].raised

\* C28: Orchestrator.plan and Orchestrator.execute called with an empty task
\* raise before touching memory: the memory is unchanged and no planner or
\* executor call is made; when the planner call itself raises, the user task
\* recorded before the call (tag 'task') stays in memory as the only new item:
\* there is no rollback and no 'plan' item is added.
C28_EmptyTaskAndPlannerFailure ==
    /\ (call.fn \in {"plan", "execute"} /\ call.task = <<>>) =>
          /\ Failed
          /\ items = call.before
          /\ calls = <<>>
    /\ (call.fn \in {"plan", "ask"} /\ PlannerRaised) =>
          /\ Failed
          /\ call.task # <<>>
          /\ items = Append(call.before, TaskItem(call.task))
          /\ Len(calls) = 1
          /\ \A k \in (Len(call.before) + 1)..Len(items) : "plan" \notin items[k].tags

\* a plan call on a memory with earlier items whose planner raised
C28_Witness ==
    /\ call.fn = "plan"
    /\ call.before # <<>>
    /\ PlannerRaised
    /\ Failed
    /\ items = Append(call.before, TaskItem(<<"q">>))

-----------------------------------------------------------------------------
(* Reading the progress calls the caller's callback received *)

\* the names of the events of step k, in the order received; the event after
\* the loop belongs to no step
EventsOfStep(k) ==
    LET of == SelectSeq(ret, LAMBDA ev : ev.step = k /\ ev.event # "start"
                                         /\ ev.decision # "limited_by_max_steps")
    IN  [i \in 1..Len(of) |-> of[i].event]

StepEvents(with_tool) ==
    <<"think_raw", "think">> \o (IF with_tool THEN <<"tool">> ELSE <<>>)
        \o <<"operator_raw", "observe", "judge", "judge_raw">>

StepJudged(k) == \E i \in CallsAt("judge", k) : calls[i].outcome \in {"final", "continue"}

\* C25: with a progress callback, ask emits 'start' once before any step and,
\* in each step, think_raw, think, (tool), operator_raw, observe, judge,
\* judge_raw in that order; a 'tool' event is emitted only when a handler is
\* about to be invoked and always before that handler runs, and the
\* Orchestrator's wrapper forwards every event to the caller's callback in the
\* same order.
C25_EventOrder ==
    call.progress_cb # None =>
        /\ step_idx >= 1 => ret # <<>> /\ ret[1].event = "start"
        /\ \A i \in DOMAIN ret : ret[i].event = "start" => i = 1
        /\ \A i \in DOMAIN ret : i > 1 =>
              /\ ret[i - 1].step <= ret[i].step
              /\ ret[i - 1].at <= ret[i].at
        /\ \A k \in 1..max_steps :
              /\ \/ IsPrefix(EventsOfStep(k), StepEvents(TRUE))
                 \/ IsPrefix(EventsOfStep(k), StepEvents(FALSE))
              /\ StepJudged(k) => EventsOfStep(k) = StepEvents(CallsAt("tool", k) # {})
              /\ CallsAt("thinker", k) = {} => EventsOfStep(k) = <<>>
        /\ \A i \in DOMAIN ret : ret[i].event = "tool" =>
              /\ ret[i].at + 1 \in CallsAt("tool", ret[i].step)
              /\ <<calls[ret[i].at + 1].name>> = ret[i].name
              /\ calls[ret[i].at].role = "operator"
        /\ \A j \in CallsOf("tool") :
              Cardinality({i \in DOMAIN ret : ret[i].event = "tool" /\ ret[i].at = j - 1}) = 1

\* a run through the Orchestrator's wrapper whose two steps the caller's
\* callback received in full, the second with its tool event
C25_Witness ==
    /\ call.wrapper = "returns"
    /\ call.progress_cb = "returns"
    /\ pc = "returned"
    /\ Len(steps) = 2
    /\ EventsOfStep(1) = StepEvents(FALSE)
    /\ EventsOfStep(2) = StepEvents(TRUE)
    /\ items # <<>>


-----------------------------------------------------------------------------
(* Reading a run with a callback against the run without one *)

\* a step of ask as it is without a progress_cb, on the variables of ask
StepWithoutCallback ==
    \/ Asked(call.prompt)
    \/ \E r \in ThinkerRepliesCb : Thought(r)
    \/ \E b \in HandlerBehavioursCb : Operated(b)
    \/ \E r \in JudgeRepliesCb : JudgeStepped(r)
    \/ \E r \in FinalizeReplies : Finalized(r)
    \/ ThinkRaised
    \/ JudgeRaised
    \/ FinalizeRaised

\* ask ended by an exception only where the run without a callback does: on
\* the empty prompt, or in a raising call of the Thinker or the Validator
RaisedAsWithout ==
    pc = "raised" =>
        IF call.prompt = <<>> THEN calls = <<>>
        ELSE calls # <<>> /\ calls[Len(calls)].outcome = "raised"
                /\ calls[Len(calls)].role \in {"thinker", "judge", "finalize"}

\* C26: progress callbacks cannot influence a run: if the caller's callback
\* (or the Orchestrator's memory-mirroring wrapper) raises on any event, ask
\* still makes the same sequence of Thinker, tool and Validator calls and
\* returns the same content as a run with no callback: every step of the run
\* is, on the calls, the transcripts and the content, the step ask takes
\* without a callback on the same reply, and the run ends where that one ends.
C26_CallbackCannotInfluence ==
    /\ [][StepWithoutCallback]_vars
    /\ [](RaisedAsWithout)

\* a run whose callback and whose wrapper raised on every event and that
\* still invoked the handler of step 2 and returned its content
C26_Witness ==
    /\ call.progress_cb = "raises"
    /\ call.wrapper = "raises"
    /\ pc = "returned"
    /\ Len(steps) = 2
    /\ CallsAt("tool", 2) # {}
    /\ Len(ret) >= 14
    /\ result # NoResult
====
